---- MODULE Spec2Model ----
(***************************************************************************)
(* Model of asyncirc/protocol.py: the IrcProtocol engine running on a      *)
(* single-threaded asyncio event loop.                                     *)
(*                                                                         *)
(* The event loop is the FIFO sequence `ready`.  Every callback the loop   *)
(* runs (a task step, a transport notification, a timer) is one item of    *)
(* that sequence and one action of the model runs the item at its head to  *)
(* completion.  The network and the timers append their callbacks at the   *)
(* tail at any moment; the caller's own calls (connect, send, quit,        *)
(* register, wait_for, ...) run synchronously at any moment.               *)
(***************************************************************************)
EXTENDS Integers, Sequences, FiniteSets, TLC

\* ------------------------------------------------------------------------
\* Bounds of the exploration
\* ------------------------------------------------------------------------
NumServers == 2      \* length of the server list given to the constructor
MaxAttempts == 4     \* _connect invocations explored in one behaviour
MaxTimeouts == 1     \* attempts whose 30 s elapse in one behaviour
RaceTimeouts == 2    \* the same, where the caller only connects and exits
MaxEOF == 1          \* transports closed by the peer in one behaviour
MaxQuitCalls == 2    \* quit() / __aexit__ calls explored
MaxEvents == 4       \* calls of the caller on the registry (register, unregister,
                     \* wait_for, cancel), chunks delivered and timers fired
IdRange == 3         \* hook ids are drawn from 1..IdRange in the registry
                     \* specification (1..2**32 - 1 in the code)
MaxDraws == 5        \* values drawn from the generator in that specification

\* ------------------------------------------------------------------------
\* Values
\* ------------------------------------------------------------------------
None == <<>>                    \* Python None, and the empty password / reason
NoFut == 0                      \* attribute deleted / no future
NoTransport == 0                \* self._transport is None
CR == "\r"
LF == "\n"
Nick == "nick"                  \* constructor argument nick
UserArg == None                 \* constructor argument user (absent)
RealnameArg == None             \* constructor argument realname (absent)
NameValues == { <<"u">>, <<"">> }   \* values given to the user / realname setters

VARIABLES
    servers,            \* self.servers, with the behaviour of each server
    _connected,         \* self._connected
    _quitting,          \* self._quitting
    _transport,         \* self._transport: id of the transport, NoTransport
    _server,            \* self._server: index of the ConnectedServer's descriptor
    _connected_future,  \* self._connected_future: id of the future, NoFut
    quit_future,        \* self.quit_future: id of the future
    quitDone,           \* ids of the quit futures that have a result
    nextFut,            \* id of the next future loop.create_future() returns
    ready,              \* the event loop's FIFO of callbacks
    blocked,            \* _send tasks suspended in `await self._connected_future`
    cyc,                \* the connect() coroutines: state, servers tried, attempt
    atts,               \* the _connect invocations: wait_for, create_connection task
    trs,                \* the transports created: server, attempt, state, and
                        \* (history) the user and realname connection_made
                        \* read, whether the peer closed it
    _user,              \* self._user
    _realname,          \* self._realname
    wire,               \* every transport.write(): <<transport, bytes>>
    \* history variables, read only by the properties
    losses,             \* number of connection_lost notifications
    reconnecting,       \* a loss while not quitting happened, not yet reconnected
    sent,               \* user lines handed to send()
    sentNC,             \* lines handed to send() while not connected, with the
                        \* number of transports established before the call
    quitArgs,           \* the reason given to every quit() call, in order
    quitSends,          \* QUIT lines handed to send(), in order
    aexit,              \* the __aexit__ caller: awaited future, transport and
                        \* number of losses at the call
    \* handler registry, framer, wait_for
    handlers,           \* self.handlers, in insertion order: [id, cmd, fn]
    _buff,              \* self._buff
    waits,              \* the wait_for() calls made so far
    owned,              \* hook ids register() returned to the caller
    randoms,            \* the values random.randint is going to return, in order
    nEvents,            \* registry calls, chunks and timers so far
    dispatched,         \* history: every message data_received parsed, in order
    regCount,           \* history: register() calls minus unregister() calls
    \* capability negotiation and SASL
    caps,               \* self._server.caps, in insertion order: [name, val]
    cap_handlers,       \* self.cap_handlers, in insertion order: [name, val]
    sasl_mech,          \* self.sasl_mech.name
    capTasks,           \* the CAP ACK/NAK handlers and the tasks they gathered
    \* history variables, read only by the environment and the properties
    rx,                 \* every chunk the transport delivered: <<transport, bytes>>
    inbound,             \* the part of the inbound stream not delivered yet
    snaps,              \* snaps[k]: self.handlers when dispatched[k] was dispatched
    invoked,            \* every handler invocation: [fn, msg, raised]
    buffSrc,            \* buffSrc[k]: the transport that delivered _buff[k]
    mixed               \* a line made of bytes of two transports was parsed

vars == << servers, _connected, _quitting, _transport, _server,
           _connected_future, quit_future, quitDone, nextFut, ready, blocked,
           cyc, atts, trs, _user, _realname, wire, losses, reconnecting, sent,
           sentNC, quitArgs, quitSends, aexit, handlers, _buff, waits,
           owned, randoms, nEvents, dispatched, regCount, caps, cap_handlers,
           sasl_mech, capTasks, rx, inbound, snaps, invoked, buffSrc, mixed >>

xVars == << cap_handlers, sasl_mech, capTasks, rx, inbound, snaps, invoked,
            buffSrc, mixed >>

regVars == << handlers, _buff, waits, owned, randoms, nEvents, dispatched, regCount,
              xVars >>

\* the futures the engine creates
futVars == << _connected_future, quit_future, quitDone, nextFut >>

\* the connect() coroutines, their attempts and the transports
connVars == << cyc, atts, trs >>

\* the history of the caller's calls and of the losses
histVars == << losses, reconnecting, sent, sentNC, quitArgs, quitSends, aexit >>

nameVars == << _user, _realname >>

coreVars == << _connected, _quitting, _transport, _server, futVars, blocked,
               connVars, nameVars, wire, histVars >>

lifeVars == << coreVars, caps >>

\* ------------------------------------------------------------------------
\* Helpers
\* ------------------------------------------------------------------------
Item(k, a) == [kind |-> k, arg |-> a]

HeadIs(k) == ready /= <<>> /\ Head(ready).kind = k

RECURSIVE SelectTexts(_, _)
\* the texts of the _send tasks waiting on future f, in the order they waited
SelectTexts(bl, f) ==
    IF bl = <<>> THEN <<>>
    ELSE IF Head(bl).fut = f
         THEN <<Head(bl).text>> \o SelectTexts(Tail(bl), f)
         ELSE SelectTexts(Tail(bl), f)

RECURSIVE DropFut(_, _)
DropFut(bl, f) ==
    IF bl = <<>> THEN <<>>
    ELSE IF Head(bl).fut = f
         THEN DropFut(Tail(bl), f)
         ELSE <<Head(bl)>> \o DropFut(Tail(bl), f)

RECURSIVE Items(_, _)
Items(k, args) ==
    IF args = <<>> THEN <<>>
    ELSE <<Item(k, Head(args))>> \o Items(k, Tail(args))

\* the user / realname properties: `self._user or self.nick`
user == IF _user = None \/ _user = <<"">> THEN Nick ELSE _user[1]
realname == IF _realname = None \/ _realname = <<"">> THEN Nick ELSE _realname[1]

\* the socket of the transport the engine holds: "open" while it is read,
\* "closing" from the end of the stream or close() to connection_lost,
\* "closed" otherwise
net ==
    IF _transport = NoTransport THEN "closed"
    ELSE IF trs[_transport].st = "open" THEN "open"
    ELSE IF trs[_transport].st \in {"eof", "closing"} THEN "closing"
    ELSE "closed"

\* number of transports connection_made was called with
nMade == Cardinality({ t \in 1..Len(trs) : trs[t].made /= <<>> })

\* text + b'\r\n'
Encode(text) == text \o <<CR, LF>>

\* send(): run_coroutine_threadsafe(self._send(text), loop) queues a callback
\* that creates the _send task
send(q, text) == Append(q, Item("spawn_send", text))

RECURSIVE sendAll(_, _)
sendAll(q, texts) ==
    IF texts = <<>> THEN q ELSE sendAll(send(q, Head(texts)), Tail(texts))

\* the lines connection_made hands to send(), in order
StartupLines(password) ==
    <<  <<"CAP", "LS", "302">> >>
    \o (IF password /= None THEN << <<"PASS">> \o password >> ELSE <<>>)
    \o << <<"NICK", Nick>>, <<"USER", user, "0", "*", ":" \o realname>> >>

\* the line quit() hands to send()
QuitLine(reason) == IF reason /= None THEN <<"QUIT">> \o reason ELSE <<"QUIT">>

\* ------------------------------------------------------------------------
\* The state after IrcProtocol.__init__
\* ------------------------------------------------------------------------
InitLife(srv) ==
    /\ servers = srv
    /\ _connected = FALSE
    /\ _quitting = FALSE
    /\ _transport = NoTransport
    /\ _server = 0
    /\ _connected_future = 1
    /\ quit_future = 2
    /\ quitDone = {}
    /\ nextFut = 3
    /\ ready = <<>>
    /\ blocked = <<>>
    /\ cyc = <<>>
    /\ atts = <<>>
    /\ trs = <<>>
    /\ _user = UserArg
    /\ _realname = RealnameArg
    /\ wire = <<>>
    /\ losses = 0
    /\ reconnecting = FALSE
    /\ sent = {}
    /\ sentNC = {}
    /\ quitArgs = <<>>
    /\ quitSends = <<>>
    /\ aexit = [fut |-> NoFut, tr |-> NoTransport, losses |-> 0]
    /\ caps = <<>>

\* ------------------------------------------------------------------------
\* connect / _connect
\* ------------------------------------------------------------------------
\* a _connect invocation made by the c-th connect() on server i, at
\* `await asyncio.wait_for(fut, 30)`: the create_connection task is created
\* (cc), not started; wait_for has armed its timer and waits on its waiter
NewAttempt(c, i) ==
    [owner |-> c, srv |-> i,
     cc |-> "new",              \* the task: new, connecting, transport,
                                \* returned, raised, timedout (raised
                                \* TimeoutError), cancelled
     fw |-> "none",             \* the future the task awaits: pending, ok,
                                \* err, cancelled
     mustCancel |-> FALSE,      \* cancel() met a task that was not waiting
     sock |-> "none",           \* how the socket was answered
     tr |-> NoTransport,        \* the transport the task created
     wf |-> "waiting",          \* wait_for: waiting, cancelling, over
     waiter |-> FALSE,          \* wait_for's waiter has its result
     timer |-> "armed",         \* the 30 s timer: armed, queued, off
     elapsed |-> FALSE]         \* (history) the 30 s elapsed

\* _connect(server) up to `await asyncio.wait_for(fut, 30)`: both futures are
\* replaced, the ConnectedServer is replaced (its caps are empty), the
\* create_connection task is created and its first step queued behind q
BeginAttempt(c, i, as, q) ==
    /\ Len(as) < MaxAttempts
    /\ _connected_future' = nextFut
    /\ quit_future' = nextFut + 1
    /\ nextFut' = nextFut + 2
    /\ _server' = i
    /\ atts' = Append(as, NewAttempt(c, i))
    /\ caps' = <<>>
    /\ ready' = Append(q, Item("cc_step", Len(as) + 1))

\* a connect() coroutine in its a-th _connect, on server i
Cycle(i, tr, a) == [st |-> "attempting", idx |-> i, tried |-> tr, att |-> a]

\* the caller awaits connect(): the first _connect runs at once
UserConnect ==
    /\ cyc = <<>>
    /\ ~_quitting
    /\ BeginAttempt(1, 1, atts, ready)
    /\ cyc' = << Cycle(1, <<1>>, 1) >>
    /\ UNCHANGED << regVars, servers, _connected, _quitting, _transport, quitDone,
                    blocked, trs, nameVars, wire, histVars >>

\* connect() scheduled by connection_lost: the callback of
\* run_coroutine_threadsafe creates the task
RunSpawnConnect ==
    /\ HeadIs("spawn_connect")
    /\ ready' = Append(Tail(ready), Item("connect_step", None))
    /\ UNCHANGED << regVars, servers, lifeVars >>

\* first step of the connect() task: cycle(self.servers) starts at the first
RunConnectStep ==
    /\ HeadIs("connect_step")
    /\ BeginAttempt(Len(cyc) + 1, 1, atts, Tail(ready))
    /\ cyc' = Append(cyc, Cycle(1, <<1>>, Len(atts) + 1))
    /\ UNCHANGED << regVars, servers, _connected, _quitting, _transport, quitDone,
                    blocked, trs, nameVars, wire, histVars >>

\* the create_connection task of attempt a is done: its done callback is
\* queued, the one wait_for added first or the one of _cancel_and_wait
DoneCallbacks(at, a, q) ==
    CASE at.wf = "waiting"    -> Append(q, Item("att_release", a))
      [] at.wf = "cancelling" -> Append(q, Item("att_release2", a))
      [] OTHER                -> q

\* first step of the create_connection task: the socket is created and the
\* task waits for it to connect; a task cancelled before it started ends here
RunCcStep ==
    /\ HeadIs("cc_step")
    /\ LET a == Head(ready).arg
           at == atts[a]
       IN IF at.mustCancel
          THEN /\ atts' = [atts EXCEPT ![a].cc = "cancelled", ![a].mustCancel = FALSE]
               /\ ready' = DoneCallbacks(at, a, Tail(ready))
          ELSE /\ atts' = [atts EXCEPT ![a].cc = "connecting", ![a].fw = "pending"]
               /\ ready' = Tail(ready)
    /\ UNCHANGED << regVars, caps, servers, _connected, _quitting, _transport, _server,
                    futVars, blocked, cyc, trs, nameVars, wire, histVars >>

\* the socket of attempt a is answered: the server accepts, refuses
\* (ECONNREFUSED), or the kernel gives the connect up (ETIMEDOUT); the loop
\* queues the callback of sock_connect
NetOutcome(a, m) ==
    /\ a \in 1..Len(atts)
    /\ atts[a].cc = "connecting"
    /\ atts[a].fw = "pending"
    /\ atts[a].sock = "none"
    \* an "up" server accepts; a "flaky" one accepts, refuses or times out
    /\ m \in (IF servers[atts[a].srv].net = "up" THEN {"accept"}
               ELSE {"accept", "refuse", "timedout"})
    /\ m = "timedout" => Len(atts) < MaxAttempts
    /\ atts' = [atts EXCEPT ![a].sock = m]
    /\ ready' = Append(ready, Item("sock_connect_cb", a))
    /\ UNCHANGED << regVars, caps, servers, _connected, _quitting, _transport, _server,
                    futVars, blocked, cyc, trs, nameVars, wire, histVars >>

\* the callback of sock_connect gives the awaited future its result or its
\* OSError, unless the future was cancelled: the task's wakeup is queued
RunSockConnectCb ==
    /\ HeadIs("sock_connect_cb")
    /\ LET a == Head(ready).arg
           at == atts[a]
       IN IF at.fw = "pending"
          THEN /\ atts' = [atts EXCEPT
                             ![a].fw = IF at.sock = "accept" THEN "ok" ELSE "err"]
               /\ ready' = Append(Tail(ready), Item("cc_wake", a))
          ELSE /\ ready' = Tail(ready)
               /\ UNCHANGED atts
    /\ UNCHANGED << regVars, caps, servers, _connected, _quitting, _transport, _server,
                    futVars, blocked, cyc, trs, nameVars, wire, histVars >>

\* transport.close(): nothing when the transport is closing or lost,
\* otherwise it stops reading and queues connection_lost
Close(ts, t) ==
    IF ts[t].st \in {"closing", "lost"} THEN ts
    ELSE [ts EXCEPT ![t].st = "closing"]

CloseQueue(ts, t, q) ==
    IF ts[t].st \in {"closing", "lost"} THEN q
    ELSE Append(q, Item("connection_lost", t))

\* the create_connection task wakes up:
\*  - cancelled: CancelledError is thrown in; when the task waited for the
\*    transport it created, `except: transport.close(); raise`;
\*  - the socket is connected: the transport is created, which queues
\*    connection_made, the registration of the reader and the result of the
\*    waiter the task now awaits;
\*  - the socket was refused or timed out: OSError leaves the task (the
\*    OSError of ETIMEDOUT is a TimeoutError);
\*  - the waiter of the transport has its result: the task returns
RunCcWake ==
    /\ HeadIs("cc_wake")
    /\ LET a == Head(ready).arg
           at == atts[a]
           t == Len(trs) + 1
       IN IF at.mustCancel \/ at.fw = "cancelled"
          THEN /\ atts' = [atts EXCEPT ![a].cc = "cancelled", ![a].mustCancel = FALSE]
               /\ trs' = IF at.cc = "transport" THEN Close(trs, at.tr) ELSE trs
               /\ ready' = DoneCallbacks(at, a,
                              IF at.cc = "transport"
                              THEN CloseQueue(trs, at.tr, Tail(ready))
                              ELSE Tail(ready))
          ELSE IF at.cc = "connecting" /\ at.fw = "ok"
          THEN /\ trs' = Append(trs, [srv |-> at.srv, att |-> a, st |-> "new",
                                        made |-> <<>>, eof |-> FALSE])
               /\ atts' = [atts EXCEPT ![a].cc = "transport", ![a].fw = "pending",
                                       ![a].tr = t]
               /\ ready' = Tail(ready) \o << Item("connection_made", t),
                                             Item("add_reader", t),
                                             Item("waiter_set", a) >>
          ELSE /\ atts' = [atts EXCEPT
                             ![a].cc = IF at.fw /= "err" THEN "returned"
                                       ELSE IF at.sock = "timedout" THEN "timedout"
                                       ELSE "raised"]
               /\ ready' = DoneCallbacks(at, a, Tail(ready))
               /\ UNCHANGED trs
    /\ UNCHANGED << regVars, caps, servers, _connected, _quitting, _transport, _server,
                    futVars, blocked, cyc, nameVars, wire, histVars >>

\* the transport registers its reader, unless it was closed meanwhile
RunAddReader ==
    /\ HeadIs("add_reader")
    /\ LET t == Head(ready).arg
       IN trs' = IF trs[t].st = "new" THEN [trs EXCEPT ![t].st = "open"] ELSE trs
    /\ ready' = Tail(ready)
    /\ UNCHANGED << regVars, caps, servers, _connected, _quitting, _transport, _server,
                    futVars, blocked, cyc, atts, nameVars, wire, histVars >>

\* the transport gives its waiter the result, unless the waiter was
\* cancelled: the wakeup of the create_connection task is queued
RunWaiterSet ==
    /\ HeadIs("waiter_set")
    /\ LET a == Head(ready).arg
       IN IF atts[a].fw = "pending"
          THEN /\ atts' = [atts EXCEPT ![a].fw = "ok"]
               /\ ready' = Append(Tail(ready), Item("cc_wake", a))
          ELSE /\ ready' = Tail(ready)
               /\ UNCHANGED atts
    /\ UNCHANGED << regVars, caps, servers, _connected, _quitting, _transport, _server,
                    futVars, blocked, cyc, trs, nameVars, wire, histVars >>

\* _release_waiter: wait_for's waiter gets its result unless it has one, and
\* the wakeup of the _connect that awaits it is queued
Release(a, q) ==
    IF atts[a].waiter THEN q ELSE Append(q, Item("connect_wake", a))

\* the done callback wait_for added to the create_connection task
RunAttRelease ==
    /\ HeadIs("att_release")
    /\ LET a == Head(ready).arg
       IN /\ ready' = Release(a, Tail(ready))
          /\ atts' = [atts EXCEPT ![a].waiter = TRUE]
    /\ UNCHANGED << regVars, caps, servers, _connected, _quitting, _transport, _server,
                    futVars, blocked, cyc, trs, nameVars, wire, histVars >>

\* the 30 s of wait_for(fut, 30) elapse before wait_for's waiter has its
\* result: the loop queues the timer callback (later the callback changes
\* nothing); n is the number of attempts this happens to in one behaviour
NetAttemptTimer(a, n) ==
    /\ a \in 1..Len(atts)
    /\ atts[a].timer = "armed"
    /\ ~atts[a].waiter
    /\ Len(atts) < MaxAttempts
    /\ Cardinality({ b \in 1..Len(atts) : atts[b].elapsed }) < n
    /\ atts' = [atts EXCEPT ![a].timer = "queued", ![a].elapsed = TRUE]
    /\ ready' = Append(ready, Item("attempt_timer", a))
    /\ UNCHANGED << regVars, caps, servers, _connected, _quitting, _transport, _server,
                    futVars, blocked, cyc, trs, nameVars, wire, histVars >>

\* the timer callback (_release_waiter), skipped when wait_for cancelled the
\* timer meanwhile
RunAttemptTimer ==
    /\ HeadIs("attempt_timer")
    /\ LET a == Head(ready).arg
       IN IF atts[a].timer = "queued"
          THEN /\ ready' = Release(a, Tail(ready))
               /\ atts' = [atts EXCEPT ![a].waiter = TRUE, ![a].timer = "off"]
          ELSE /\ ready' = Tail(ready)
               /\ UNCHANGED atts
    /\ UNCHANGED << regVars, caps, servers, _connected, _quitting, _transport, _server,
                    futVars, blocked, cyc, trs, nameVars, wire, histVars >>

\* the done callback _cancel_and_wait added to the create_connection task
RunAttRelease2 ==
    /\ HeadIs("att_release2")
    /\ ready' = Append(Tail(ready), Item("connect_wake", Head(ready).arg))
    /\ UNCHANGED << regVars, servers, lifeVars >>

\* wait_for left by its finally block: the timer is cancelled
Over(as, a) == [as EXCEPT ![a].wf = "over", ![a].timer = "off"]

\* _connect wakes up in `await asyncio.wait_for(fut, 30)`.
\*  - the task is done: wait_for returns its result and _connect returns
\*    True, connect() leaves its loop; or the task's exception leaves
\*    wait_for, _connect and connect(), unless it is a TimeoutError (the
\*    OSError of ETIMEDOUT is one), which `except asyncio.TimeoutError`
\*    catches as it catches the one of wait_for;
\*  - the task is not done (the timer woke the waiter): wait_for removes its
\*    done callback, cancels the task and waits for it to end;
\*  - the cancelled task has ended, or the task ended with TimeoutError:
\*    `return False`, and connect()'s loop calls _connect with the next
\*    server of the cycle
RunConnectWake ==
    /\ HeadIs("connect_wake")
    /\ LET a == Head(ready).arg
           at == atts[a]
           c == at.owner
           i == (cyc[c].idx % NumServers) + 1      \* itertools.cycle
       IN IF at.wf = "waiting" /\ at.cc \in {"returned", "raised"}
          THEN /\ atts' = Over(atts, a)
               /\ cyc' = [cyc EXCEPT ![c].st = at.cc]
               /\ ready' = Tail(ready)
               /\ UNCHANGED << _connected_future, quit_future, nextFut, _server, caps >>
          ELSE IF at.wf = "waiting" /\ at.cc /= "timedout"
          THEN /\ atts' = IF at.fw = "pending"
                           THEN [atts EXCEPT ![a].fw = "cancelled",
                                             ![a].wf = "cancelling"]
                           ELSE [atts EXCEPT ![a].mustCancel = TRUE,
                                             ![a].wf = "cancelling"]
               /\ ready' = IF at.fw = "pending"
                           THEN Append(Tail(ready), Item("cc_wake", a))
                           ELSE Tail(ready)
               /\ UNCHANGED << cyc, _connected_future, quit_future, nextFut, _server,
                               caps >>
          ELSE /\ BeginAttempt(c, i, Over(atts, a), Tail(ready))
               /\ cyc' = [cyc EXCEPT ![c] = Cycle(i, Append(cyc[c].tried, i),
                                                  Len(atts) + 1)]
    /\ UNCHANGED << regVars, servers, _connected, _quitting, _transport, quitDone,
                    blocked, trs, nameVars, wire, histVars >>

\* ------------------------------------------------------------------------
\* the user and realname setters
\* ------------------------------------------------------------------------
\* conn.user = value
UserSetUser(value) ==
    /\ _user = UserArg
    /\ _user' = value
    /\ UNCHANGED << regVars, caps, servers, ready, _connected, _quitting, _transport,
                    _server, futVars, blocked, connVars, _realname, wire, histVars >>

\* conn.realname = value
UserSetRealname(value) ==
    /\ _realname = RealnameArg
    /\ _realname' = value
    /\ UNCHANGED << regVars, caps, servers, ready, _connected, _quitting, _transport,
                    _server, futVars, blocked, connVars, _user, wire, histVars >>

\* ------------------------------------------------------------------------
\* send / _send
\* ------------------------------------------------------------------------
UserSend(text) ==
    /\ text \notin sent
    /\ ready' = send(ready, text)
    /\ sent' = sent \cup {text}
    /\ sentNC' = IF _connected THEN sentNC ELSE sentNC \cup {[text |-> text, tr |-> nMade]}
    /\ UNCHANGED << regVars, caps, servers, _connected, _quitting, _transport, _server,
                    futVars, blocked, connVars, nameVars, wire, losses,
                    reconnecting, quitArgs, quitSends, aexit >>

RunSpawnSend ==
    /\ HeadIs("spawn_send")
    /\ ready' = Append(Tail(ready), Item("send_step", Head(ready).arg))
    /\ UNCHANGED << regVars, servers, lifeVars >>

\* _send up to its await: written at once when connected, otherwise the task
\* waits on the future self._connected_future names now (AttributeError when
\* the attribute is deleted: the task ends, nothing is written)
RunSendStep ==
    /\ HeadIs("send_step")
    /\ ready' = Tail(ready)
    /\ LET text == Head(ready).arg IN
       IF _connected
       THEN /\ wire' = Append(wire, <<_transport, Encode(text)>>)
            /\ UNCHANGED blocked
       ELSE IF _connected_future /= NoFut
       THEN /\ blocked' = Append(blocked, [fut |-> _connected_future, text |-> text])
            /\ UNCHANGED wire
       ELSE UNCHANGED << wire, blocked >>
    /\ UNCHANGED << regVars, caps, servers, _connected, _quitting, _transport, _server,
                    futVars, connVars, nameVars, histVars >>

\* _send after its await: self._transport.write(text + CRLF) (AttributeError
\* when the transport is None)
RunSendWake ==
    /\ HeadIs("send_wake")
    /\ ready' = Tail(ready)
    /\ wire' = IF _transport /= NoTransport
               THEN Append(wire, <<_transport, Encode(Head(ready).arg)>>)
               ELSE wire
    /\ UNCHANGED << regVars, caps, servers, _connected, _quitting, _transport, _server,
                    futVars, blocked, connVars, nameVars, histVars >>

\* ------------------------------------------------------------------------
\* quit / __aexit__
\* ------------------------------------------------------------------------
\* mutant of quit: the `if not self._quitting` test is missing
quit_unguarded(reason) ==
    /\ quitArgs' = Append(quitArgs, reason)
    /\ _quitting' = TRUE
    /\ ready' = send(ready, QuitLine(reason))
    /\ quitSends' = Append(quitSends, QuitLine(reason))
    /\ sentNC' = IF _connected THEN sentNC
                 ELSE sentNC \cup {[text |-> QuitLine(reason), tr |-> nMade]}

\* quit(reason)
quit(reason) ==
    /\ quitArgs' = Append(quitArgs, reason)
    /\ IF ~_quitting
       THEN /\ _quitting' = TRUE
            /\ ready' = send(ready, QuitLine(reason))
            /\ quitSends' = Append(quitSends, QuitLine(reason))
            /\ sentNC' = IF _connected THEN sentNC
                         ELSE sentNC \cup {[text |-> QuitLine(reason), tr |-> nMade]}
       ELSE UNCHANGED << _quitting, ready, quitSends, sentNC >>

UserQuit(reason) ==
    /\ Len(quitArgs) < MaxQuitCalls
    /\ quit(reason)
    /\ UNCHANGED << regVars, caps, servers, _connected, _transport, _server,
                    futVars, blocked, connVars, nameVars, wire, losses,
                    reconnecting, sent, aexit >>

\* __aexit__: quit(), then `await self.quit_future` on the future the
\* attribute names at that moment
UserAexit ==
    /\ Len(quitArgs) < MaxQuitCalls
    /\ aexit.fut = NoFut
    /\ quit(None)
    /\ aexit' = [fut |-> quit_future, tr |-> _transport, losses |-> losses]
    /\ UNCHANGED << regVars, caps, servers, _connected, _transport, _server,
                    futVars, blocked, connVars, nameVars, wire, losses,
                    reconnecting, sent >>

\* ------------------------------------------------------------------------
\* connection_made / connection_lost
\* ------------------------------------------------------------------------
\* connection_made(transport): the connected future gets its result (its
\* waiters are scheduled in the order they waited), the attribute is deleted,
\* the startup lines are handed to send().  When the attribute is already
\* deleted, AttributeError leaves the callback after the first two
\* assignments.
connection_made(tr) ==
    /\ _transport' = tr
    /\ _connected' = TRUE
    /\ IF _connected_future /= NoFut
       THEN /\ blocked' = DropFut(blocked, _connected_future)
            /\ _connected_future' = NoFut
            /\ ready' = sendAll(Tail(ready)
                                  \o Items("send_wake",
                                           SelectTexts(blocked, _connected_future)),
                                StartupLines(servers[_server].password))
       ELSE /\ ready' = Tail(ready)
            /\ UNCHANGED << blocked, _connected_future >>

RunConnectionMade ==
    /\ HeadIs("connection_made")
    /\ connection_made(Head(ready).arg)
    /\ trs' = [trs EXCEPT ![Head(ready).arg].made = << <<user, realname>> >>]
    /\ reconnecting' = FALSE
    /\ UNCHANGED << regVars, caps, servers, _quitting, _server, quit_future, quitDone,
                    nextFut, cyc, atts, nameVars, wire, losses, sent, sentNC,
                    quitArgs, quitSends, aexit >>

\* the peer closes the socket of transport t (or the read fails): the
\* transport's read callback is queued
NetEOF(t) ==
    /\ t \in 1..Len(trs)
    /\ trs[t].st = "open"
    /\ _quitting \/ Len(atts) < MaxAttempts
    /\ Cardinality({ u \in 1..Len(trs) : trs[u].eof }) < MaxEOF
    /\ trs' = [trs EXCEPT ![t].st = "eof", ![t].eof = TRUE]
    /\ ready' = Append(ready, Item("read_eof", t))
    /\ UNCHANGED << regVars, caps, servers, _connected, _quitting, _transport, _server,
                    futVars, blocked, cyc, atts, nameVars, wire, histVars >>

\* the transport reads the end of the stream: it closes itself and queues
\* connection_lost (the callback is dropped when the transport was closed
\* meanwhile)
RunReadEOF ==
    /\ HeadIs("read_eof")
    /\ LET t == Head(ready).arg
       IN /\ trs' = Close(trs, t)
          /\ ready' = CloseQueue(trs, t, Tail(ready))
    /\ UNCHANGED << regVars, caps, servers, _connected, _quitting, _transport, _server,
                    futVars, blocked, cyc, atts, nameVars, wire, histVars >>

\* connection_lost(exc)
connection_lost ==
    /\ _transport' = NoTransport
    /\ _connected' = FALSE
    /\ IF ~_quitting
       THEN /\ _connected_future' = nextFut
            /\ nextFut' = nextFut + 1
            /\ ready' = Append(Tail(ready), Item("spawn_connect", None))
            /\ UNCHANGED quitDone
       ELSE /\ quitDone' = quitDone \cup {quit_future}
            /\ ready' = Tail(ready)
            /\ UNCHANGED << _connected_future, nextFut >>

\* the transport calls connection_lost; the transport is gone
RunConnectionLost ==
    /\ HeadIs("connection_lost")
    /\ connection_lost
    /\ trs' = [trs EXCEPT ![Head(ready).arg].st = "lost"]
    /\ losses' = losses + 1
    /\ reconnecting' = ~_quitting
    /\ UNCHANGED << regVars, caps, servers, _quitting, _server, quit_future, blocked,
                    cyc, atts, nameVars, wire, sent, sentNC, quitArgs, quitSends,
                    aexit >>

\* ------------------------------------------------------------------------
\* Handler registry: register / unregister
\* ------------------------------------------------------------------------
Fn(name, w) == [name |-> name, w |-> w]
WaitFn(w) == Fn("_wait", w)          \* the closure _wait of the w-th wait_for call

Ids(h) == { h[k].id : k \in 1..Len(h) }

\* self.handlers[hook_id] = (cmd, handler)
SetItem(h, t, cmd, fn) ==
    IF t \in Ids(h)
    THEN [k \in 1..Len(h) |->
             IF h[k].id = t THEN [id |-> t, cmd |-> cmd, fn |-> fn] ELSE h[k]]
    ELSE Append(h, [id |-> t, cmd |-> cmd, fn |-> fn])

\* del self.handlers[hook_id]
DelItem(h, t) ==
    LET Keep(e) == e.id /= t IN SelectSeq(h, Keep)

\* mutant of Draw: the `hook_id in self.handlers` test is missing
Draw_no_collision_test(h, stream) ==
    IF stream = <<>> THEN [ok |-> FALSE, id |-> 0, rest |-> <<>>]
    ELSE [ok |-> TRUE, id |-> Head(stream), rest |-> Tail(stream)]

RECURSIVE Draw(_, _)
\* the loop of register(): values are drawn until one is not a key of
\* self.handlers (ok is FALSE when the explored stream ends before)
Draw(h, stream) ==
    IF stream = <<>> THEN [ok |-> FALSE, id |-> 0, rest |-> <<>>]
    ELSE IF Head(stream) \in Ids(h) THEN Draw(h, Tail(stream))
    ELSE [ok |-> TRUE, id |-> Head(stream), rest |-> Tail(stream)]

\* register(cmd, handler): the registry, the id returned, the stream left
register(h, stream, cmd, fn) ==
    LET d == Draw(h, stream) IN
    [ok |-> d.ok, h |-> SetItem(h, d.id, cmd, fn), id |-> d.id, rest |-> d.rest]

RECURSIVE RegisterAll(_, _, _, _)
\* [self.register(cmd, _wait) for cmd in cmds]
RegisterAll(h, stream, cmds, fn) ==
    IF cmds = <<>> THEN [ok |-> TRUE, h |-> h, hooks |-> <<>>, rest |-> stream]
    ELSE LET r == register(h, stream, Head(cmds), fn)
             rr == RegisterAll(r.h, r.rest, Tail(cmds), fn)
         IN [ok |-> r.ok /\ rr.ok, h |-> rr.h, hooks |-> <<r.id>> \o rr.hooks,
             rest |-> rr.rest]

RECURSIVE UnregisterAll(_, _)
\* `for hook_id in hooks: self.unregister(hook_id)`: the registry after the
\* loop, and whether the loop ended by the KeyError of a missing id
UnregisterAll(h, hooks) ==
    IF hooks = <<>> THEN [h |-> h, ok |-> TRUE]
    ELSE IF Head(hooks) \notin Ids(h) THEN [h |-> h, ok |-> FALSE]
    ELSE UnregisterAll(DelItem(h, Head(hooks)), Tail(hooks))

\* __init__: register("PING", _internal_ping), register("CAP", ...)
InitialRegistry(seed) ==
    LET r1 == register(<<>>, seed, "PING", Fn("_internal_ping", 0))
        r2 == register(r1.h, r1.rest, "CAP", Fn("_internal_cap_handler", 0))
    IN [ok |-> r1.ok /\ r2.ok, h |-> r2.h, rest |-> r2.rest]

\* the registry after __init__, with a generator that returns seed
InitReg(seed) ==
    /\ InitialRegistry(seed).ok
    /\ handlers = InitialRegistry(seed).h
    /\ randoms = InitialRegistry(seed).rest
    /\ _buff = <<>>
    /\ waits = <<>>
    /\ owned = {}
    /\ nEvents = 0
    /\ dispatched = <<>>
    /\ regCount = 2
    /\ rx = <<>>
    /\ snaps = <<>>
    /\ invoked = <<>>
    /\ buffSrc = <<>>
    /\ mixed = FALSE

\* the caller registers a handler of its own
UserRegister(cmd) ==
    /\ nEvents < MaxEvents
    /\ nEvents' = nEvents + 1
    /\ LET r == register(handlers, randoms, cmd, Fn("user", 0)) IN
       /\ r.ok
       /\ handlers' = r.h
       /\ randoms' = r.rest
       /\ owned' = owned \cup {[id |-> r.id, cmd |-> cmd]}
    /\ regCount' = regCount + 1
    /\ UNCHANGED << servers, lifeVars, xVars, ready, _buff, waits, dispatched >>

\* the caller unregisters a handler with the id register() gave it
UserUnregister(t) ==
    /\ nEvents < MaxEvents
    /\ nEvents' = nEvents + 1
    /\ \E o \in owned : o.id = t
    /\ t \in Ids(handlers)
    /\ handlers' = DelItem(handlers, t)
    /\ owned' = { o \in owned : o.id /= t }
    /\ regCount' = regCount - 1
    /\ UNCHANGED << servers, lifeVars, xVars, ready, _buff, waits, randoms, dispatched >>

\* ------------------------------------------------------------------------
\* data_received: framing and dispatch
\* ------------------------------------------------------------------------
\* index of the first CRLF of buf, 0 when there is none
FindCRLF(buf) ==
    IF \E k \in 1..(Len(buf) - 1) : buf[k] = CR /\ buf[k + 1] = LF
    THEN CHOOSE k \in 1..(Len(buf) - 1) :
             /\ buf[k] = CR /\ buf[k + 1] = LF
             /\ \A j \in 1..(k - 1) : ~(buf[j] = CR /\ buf[j + 1] = LF)
    ELSE 0

RECURSIVE Frame(_)
\* the `while b'\r\n' in self._buff` loop: the lines split off, and the rest
Frame(buf) ==
    LET i == FindCRLF(buf) IN
    IF i = 0 THEN [lines |-> <<>>, rest |-> buf]
    ELSE LET r == Frame(SubSeq(buf, i + 2, Len(buf)))
         IN [lines |-> <<SubSeq(buf, 1, i - 1)>> \o r.lines, rest |-> r.rest]

\* Message.parse(raw_line): the command and the parameters of the line
Parse(raw) ==
    IF raw = <<>> THEN [command |-> "", parameters |-> <<>>]
    ELSE [command |-> Head(raw), parameters |-> Tail(raw)]

\* mutant of Triggers: the wildcard is not honoured
Triggers_exact_only(trigger, message) == trigger = message.command

\* `trigger in (message.command, '*')`
Triggers(trigger, message) == trigger = message.command \/ trigger = "*"

RECURSIVE TasksFor(_, _)
\* the tasks created for one message, in the order of self.handlers.values()
TasksFor(h, message) ==
    IF h = <<>> THEN <<>>
    ELSE (IF Triggers(Head(h).cmd, message)
          THEN << Item("handler_step", [fn |-> Head(h).fn, msg |-> message]) >>
          ELSE <<>>) \o TasksFor(Tail(h), message)

RECURSIVE Dispatch(_, _)
Dispatch(h, messages) ==
    IF messages = <<>> THEN <<>>
    ELSE TasksFor(h, Head(messages)) \o Dispatch(h, Tail(messages))

ParseAll(lines) == [k \in 1..Len(lines) |-> Parse(lines[k])]

\* mutant of Feed: the bytes left in the buffer are forgotten
Feed_forgets_partial(buf, data) == data

\* self._buff += data
Feed(buf, data) == buf \o data

\* the socket becomes readable: the transport's read callback is queued
\* (data_received does not read the connection state: the transport is left
\* free to call it at any moment)
NetData(chunk) ==
    /\ nEvents < MaxEvents
    /\ nEvents' = nEvents + 1
    /\ ready' = Append(ready, Item("read_data", chunk))
    /\ rx' = Append(rx, <<_transport, chunk>>)
    /\ UNCHANGED << servers, lifeVars, handlers, _buff, waits, owned, randoms,
                    dispatched, regCount, cap_handlers, sasl_mech, capTasks,
                    inbound, snaps, invoked, buffSrc, mixed >>

\* data_received(data)
RunDataReceived ==
    /\ HeadIs("read_data")
    /\ LET data == Head(ready).arg
           buf == Feed(_buff, data)
           f == Frame(buf)
           msgs == ParseAll(f.lines)
           src == buffSrc \o [k \in 1..Len(data) |-> _transport]
       IN /\ _buff' = f.rest
          /\ dispatched' = dispatched \o msgs
          /\ ready' = Tail(ready) \o Dispatch(handlers, msgs)
          /\ snaps' = snaps \o [k \in 1..Len(msgs) |-> handlers]
          /\ buffSrc' = SubSeq(src, Len(src) - Len(f.rest) + 1, Len(src))
          /\ mixed' = (mixed \/ (/\ msgs /= <<>>
                                 /\ Len(src) = Len(buf)
                                 /\ \E j, k \in 1..(FindCRLF(buf) + 1) : src[j] /= src[k]))
    /\ UNCHANGED << servers, lifeVars, handlers, waits, owned, randoms, nEvents,
                    regCount, cap_handlers, sasl_mech, capTasks, rx, inbound, invoked >>

\* ------------------------------------------------------------------------
\* wait_for
\* ------------------------------------------------------------------------
WaitArgs == { <<>>, <<"PONG">>, <<"*", "NOTICE">> }

NewWait(cmds, timeout, hooks) ==
    [cmds |-> cmds, timeout |-> timeout, hooks |-> hooks,
     fut |-> IF cmds = <<>> THEN "none" ELSE "pending", val |-> None,
     waiterDone |-> FALSE, wakeQueued |-> FALSE, timerQueued |-> FALSE,
     cancelReq |-> FALSE,
     phase |-> IF cmds = <<>> THEN "returned" ELSE "awaiting",
     result |-> None, regAt |-> Len(dispatched), timerAt |-> -1]

\* a wait_for(*cmds, timeout) call.  Without cmds it returns None at once.
\* Otherwise the future is created, one _wait hook is registered per cmd and
\* the caller is suspended in asyncio.wait_for(fut, timeout).
WaitForCall(cmds, timeout) ==
    /\ nEvents < MaxEvents
    /\ nEvents' = nEvents + 1
    /\ IF cmds = <<>>
       THEN /\ waits' = Append(waits, NewWait(cmds, timeout, <<>>))
            /\ UNCHANGED << handlers, randoms, regCount >>
       ELSE LET r == RegisterAll(handlers, randoms, cmds, WaitFn(Len(waits) + 1)) IN
            /\ r.ok
            /\ handlers' = r.h
            /\ randoms' = r.rest
            /\ regCount' = regCount + Len(cmds)
            /\ waits' = Append(waits, NewWait(cmds, timeout, r.hooks))
    /\ UNCHANGED << servers, lifeVars, xVars, ready, _buff, owned, dispatched >>

\* mutant of WaitSet: the `if not fut.done()` test is missing
WaitSet_no_done_test(wt, message) ==
    [wt EXCEPT !.fut = "set", !.val = message,
               !.wakeQueued = IF wt.timeout THEN wt.wakeQueued ELSE TRUE]

\* _wait(conn, message): `if not fut.done(): fut.set_result(message)`; a
\* caller awaiting the future itself (timeout None) is scheduled
WaitSet(wt, message) ==
    IF wt.fut = "pending"
    THEN [wt EXCEPT !.fut = "set", !.val = message,
                    !.wakeQueued = IF wt.timeout THEN wt.wakeQueued ELSE TRUE]
    ELSE wt

\* ------------------------------------------------------------------------
\* Capability negotiation and SASL: _internal_cap_handler, _do_sasl
\* ------------------------------------------------------------------------

\* dictionaries kept in insertion order, as sequences of [name, val]
HasKey(d, name) == \E k \in 1..Len(d) : d[k].name = name

Get(d, name) == d[CHOOSE k \in 1..Len(d) : d[k].name = name].val

Put(d, name, val) ==
    IF HasKey(d, name)
    THEN [k \in 1..Len(d) |-> IF d[k].name = name THEN [name |-> name, val |-> val]
                                                    ELSE d[k]]
    ELSE Append(d, [name |-> name, val |-> val])

\* CapList.parse(text): the names of the capabilities of a list
CapListParse(text) ==
    CASE text = "sasl" -> <<"sasl">>
      [] text = "x" -> <<"x">>
      [] text = "multi-prefix" -> <<"multi-prefix">>
      [] text = "sasl x" -> <<"sasl", "x">>
      [] text = "x multi-prefix" -> <<"x", "multi-prefix">>
      [] OTHER -> <<>>

\* str.encode() of the strings given to the constructor
Utf8(text) ==
    CASE text = "nick" -> <<110, 105, 99, 107>>
      [] text = "acct" -> <<97, 99, 99, 116>>
      [] text = "pw" -> <<112, 119>>
      [] OTHER -> <<>>

\* constructor argument sasl_auth
sasl_auth == <<"acct", "pw">>

B64Alphabet ==
    << "A", "B", "C", "D", "E", "F", "G", "H", "I", "J", "K", "L", "M", "N", "O", "P",
       "Q", "R", "S", "T", "U", "V", "W", "X", "Y", "Z", "a", "b", "c", "d", "e", "f",
       "g", "h", "i", "j", "k", "l", "m", "n", "o", "p", "q", "r", "s", "t", "u", "v",
       "w", "x", "y", "z", "0", "1", "2", "3", "4", "5", "6", "7", "8", "9", "+", "/" >>

RECURSIVE b64encode(_)
\* base64.b64encode(bytes).decode()
b64encode(bytes) ==
    IF bytes = <<>> THEN ""
    ELSE IF Len(bytes) = 1
    THEN B64Alphabet[(bytes[1] \div 4) + 1]
         \o B64Alphabet[((bytes[1] % 4) * 16) + 1] \o "=="
    ELSE IF Len(bytes) = 2
    THEN B64Alphabet[(bytes[1] \div 4) + 1]
         \o B64Alphabet[((bytes[1] % 4) * 16) + (bytes[2] \div 16) + 1]
         \o B64Alphabet[((bytes[2] % 16) * 4) + 1] \o "="
    ELSE B64Alphabet[(bytes[1] \div 4) + 1]
         \o B64Alphabet[((bytes[1] % 4) * 16) + (bytes[2] \div 16) + 1]
         \o B64Alphabet[((bytes[2] % 16) * 4) + (bytes[3] \div 64) + 1]
         \o B64Alphabet[(bytes[3] % 64) + 1]
         \o b64encode(SubSeq(bytes, 4, Len(bytes)))

\* mutant of PlainTriple: authcid comes before the nick
PlainTriple_authcid_first(nick, auth) ==
    Utf8(auth[1]) \o <<0>> \o Utf8(nick) \o <<0>> \o Utf8(auth[2])

\* '\0'.join((conn.nick, *conn.sasl_auth)).encode()
PlainTriple(nick, auth) ==
    Utf8(nick) \o <<0>> \o Utf8(auth[1]) \o <<0>> \o Utf8(auth[2])

\* the auth_line of _do_sasl
AuthLine(mech) ==
    IF mech = "PLAIN" THEN b64encode(PlainTriple(Nick, sasl_auth)) ELSE "+"

\* a record of capTasks: a suspended _internal_cap_handler (kind "ack") or a
\* _do_sasl task it gathered (kind "sasl"); srv is the number of the
\* connection attempt during which the handler was started
CapTask(kind, parent, names, enabled, pending, st, srv) ==
    [kind |-> kind, parent |-> parent, names |-> names, enabled |-> enabled,
     pending |-> pending, wait |-> 0, st |-> st, srv |-> srv]

\* the state the handlers work on
NegState(c, ch, ct, q) == [caps |-> c, cap_handlers |-> ch, capTasks |-> ct, q |-> q]

RECURSIVE MarkPending_every_advertised(_, _, _)
\* mutant of MarkPending: every advertised capability is marked
MarkPending_every_advertised(c, ch, names) ==
    IF names = <<>> THEN c
    ELSE MarkPending_every_advertised(Put(c, Head(names), "None"), ch, Tail(names))

RECURSIVE MarkPending(_, _, _)
\* `if cap.name in conn.cap_handlers: conn.server.caps[cap.name] = None`
MarkPending(c, ch, names) ==
    IF names = <<>> THEN c
    ELSE MarkPending(IF HasKey(ch, Head(names)) THEN Put(c, Head(names), "None") ELSE c,
                     ch, Tail(names))

\* the LS branch of _internal_cap_handler
CapLS(ns, message) ==
    LET c == MarkPending(ns.caps, ns.cap_handlers,
                         CapListParse(message.parameters[Len(message.parameters)]))
    IN [ns EXCEPT !.caps = c,
                  !.q = IF message.parameters[3] /= "*"
                        THEN sendAll(ns.q, [k \in 1..Len(c) |->
                                                <<"CAP", "REQ", ":" \o c[k].name>>])
                        ELSE ns.q]

\* all(val is not None for val in conn.server.caps.values())
AllDecided(c) == \A k \in 1..Len(c) : c[k].val /= "None"

\* filter(None, conn.cap_handlers[cap.name])
Funcs(ch, name) ==
    IF HasKey(ch, name)
    THEN LET IsFunc(f) == f /= "None" IN SelectSeq(Get(ch, name), IsFunc)
    ELSE <<>>

\* the tasks asyncio.gather creates for the handlers of one capability
GatherTasks(ct, self, funcs, srv) ==
    [k \in 1..Len(funcs) |-> CapTask("sasl", self, <<>>, TRUE, 0, "new", srv)]

RECURSIVE AckLoop(_, _, _, _, _)
\* the ACK/NAK branch of _internal_cap_handler from the head of its `for`
\* loop on: self is the handler's record in capTasks (0 as long as it has
\* not been suspended), names the capabilities left to go through
AckLoop(ns, self, names, enabled, srv) ==
    IF names = <<>>
    THEN [ns EXCEPT
            !.q = IF AllDecided(ns.caps) THEN send(ns.q, <<"CAP", "END">>) ELSE ns.q,
            !.capTasks = IF self = 0 THEN ns.capTasks
                         ELSE [ns.capTasks EXCEPT ![self].st = "done"]]
    ELSE LET name == Head(names)
             c == Put(ns.caps, name, IF enabled THEN "True" ELSE "False")
             \* cap_handlers is a defaultdict: reading a missing key adds it
             ch == IF enabled /\ ~HasKey(ns.cap_handlers, name)
                   THEN Append(ns.cap_handlers, [name |-> name, val |-> <<>>])
                   ELSE ns.cap_handlers
             funcs == IF enabled THEN Funcs(ch, name) ELSE <<>>
             me == IF self = 0 THEN Len(ns.capTasks) + 1 ELSE self
             mine == CapTask("ack", 0, Tail(names), enabled, Len(funcs), "gather", srv)
             ct == IF self = 0 THEN Append(ns.capTasks, mine)
                   ELSE [ns.capTasks EXCEPT ![self] = mine]
             kids == GatherTasks(ct, me, funcs, srv)
         IN IF kids = <<>>
            THEN AckLoop([ns EXCEPT !.caps = c, !.cap_handlers = ch],
                         self, Tail(names), enabled, srv)
            ELSE [ns EXCEPT
                    !.caps = c, !.cap_handlers = ch,
                    !.capTasks = ct \o kids,
                    !.q = ns.q \o [k \in 1..Len(kids) |->
                                      Item("sasl_step", Len(ct) + k)]]

\* _internal_cap_handler(conn, message) up to its first suspension
CapHandler(ns, message, srv) ==
    IF message.parameters[2] = "LS" THEN CapLS(ns, message)
    ELSE IF message.parameters[2] \in {"ACK", "NAK"}
    THEN AckLoop(ns, 0, CapListParse(message.parameters[Len(message.parameters)]),
                 message.parameters[2] = "ACK", srv)
    ELSE ns

\* mutant of SaslResume: AUTHENTICATE <mechanism> is sent again after a
\* timeout
SaslResume_retries_on_timeout(ns, c, auth_msg) ==
    LET q1 == IF auth_msg = None
              THEN send(ns.q, <<"AUTHENTICATE", sasl_mech>>)
              ELSE IF auth_msg.parameters[1] = "+"
              THEN send(ns.q, <<"AUTHENTICATE", AuthLine(sasl_mech)>>)
              ELSE ns.q
    IN [ns EXCEPT !.capTasks = [ns.capTasks EXCEPT ![c].st = "done"],
                  !.q = Append(q1, Item("gather_cb", ns.capTasks[c].parent))]

\* _do_sasl after `await conn.wait_for("AUTHENTICATE", timeout=5)`: the
\* response is sent when the reply's first parameter is "+"; the task ends
\* and the callback of gather is scheduled
SaslResume(ns, c, auth_msg) ==
    LET q1 == IF auth_msg /= None /\ auth_msg.parameters[1] = "+"
              THEN send(ns.q, <<"AUTHENTICATE", AuthLine(sasl_mech)>>)
              ELSE ns.q
    IN [ns EXCEPT !.capTasks = [ns.capTasks EXCEPT ![c].st = "done"],
                  !.q = Append(q1, Item("gather_cb", ns.capTasks[c].parent))]

\* the _do_sasl task that awaits wait_for call w, 0 when there is none
SaslOf(w) ==
    IF \E c \in 1..Len(capTasks) :
           capTasks[c].kind = "sasl" /\ capTasks[c].st = "waiting" /\ capTasks[c].wait = w
    THEN CHOOSE c \in 1..Len(capTasks) :
           capTasks[c].kind = "sasl" /\ capTasks[c].st = "waiting" /\ capTasks[c].wait = w
    ELSE 0

\* the caller of wait_for call w goes on with its result
AfterWait(w, result, q) ==
    IF SaslOf(w) = 0
    THEN /\ ready' = q
         /\ UNCHANGED capTasks
    ELSE LET ns == SaslResume(NegState(caps, cap_handlers, capTasks, q), SaslOf(w), result)
         IN /\ ready' = ns.q
            /\ capTasks' = ns.capTasks

\* first step of a handler task created by data_received
RunHandlerStep ==
    /\ HeadIs("handler_step")
    /\ LET fn == Head(ready).arg.fn
           message == Head(ready).arg.msg
       IN /\ \E raised \in (IF fn.name = "user" THEN BOOLEAN ELSE {FALSE}) :
                invoked' = Append(invoked, [fn |-> fn, msg |-> message, raised |-> raised])
          /\ CASE fn.name = "_wait" ->
                 LET wt == waits[fn.w]
                     fresh == wt.fut = "pending"
                 IN /\ waits' = [waits EXCEPT ![fn.w] = WaitSet(wt, message)]
                    /\ ready' = Tail(ready) \o
                         (IF ~fresh THEN <<>>
                          ELSE IF wt.timeout
                               THEN << Item("release_waiter", fn.w) >>
                               ELSE << Item("wait_wake", fn.w) >>)
                    /\ UNCHANGED << caps, cap_handlers, capTasks >>
            [] fn.name = "_internal_ping" ->
                 \* conn.send("PONG {}".format(message.parameters))
                 /\ ready' = send(Tail(ready), <<"PONG", message.parameters>>)
                 /\ UNCHANGED << waits, caps, cap_handlers, capTasks >>
            [] fn.name = "_internal_cap_handler" ->
                 LET ns == CapHandler(NegState(caps, cap_handlers, capTasks, Tail(ready)),
                                      message, Len(atts))
                 IN /\ ready' = ns.q
                    /\ caps' = ns.caps
                    /\ cap_handlers' = ns.cap_handlers
                    /\ capTasks' = ns.capTasks
                    /\ UNCHANGED waits
            [] OTHER ->
                 \* a handler of the caller: it returns, or it raises and
                 \* the exception stays in its task
                 /\ ready' = Tail(ready)
                 /\ UNCHANGED << waits, caps, cap_handlers, capTasks >>
    /\ UNCHANGED << servers, coreVars, handlers, _buff, owned, randoms, nEvents,
                    dispatched, regCount, sasl_mech, rx, inbound, snaps, buffSrc, mixed >>

\* asyncio.wait_for: _release_waiter(waiter), the done callback of fut
RunReleaseWaiter ==
    /\ HeadIs("release_waiter")
    /\ LET w == Head(ready).arg
           wt == waits[w]
       IN IF wt.waiterDone \/ wt.phase /= "awaiting"
          THEN /\ ready' = Tail(ready)
               /\ UNCHANGED waits
          ELSE /\ ready' = Append(Tail(ready), Item("wait_wake", w))
               /\ waits' = [waits EXCEPT ![w].waiterDone = TRUE,
                                         ![w].wakeQueued = TRUE]
    /\ UNCHANGED << servers, lifeVars, xVars, handlers, _buff, owned, randoms, nEvents,
                    dispatched, regCount >>

\* the timeout of a suspended wait_for elapses: the loop queues the timer
NetTimer(w) ==
    /\ nEvents < MaxEvents
    /\ nEvents' = nEvents + 1
    /\ w \in 1..Len(waits)
    /\ waits[w].timeout
    /\ waits[w].phase = "awaiting"
    /\ ~waits[w].timerQueued
    /\ waits' = [waits EXCEPT ![w].timerQueued = TRUE]
    /\ ready' = Append(ready, Item("timer", w))
    /\ UNCHANGED << servers, lifeVars, xVars, handlers, _buff, owned, randoms,
                    dispatched, regCount >>

\* asyncio.wait_for: _release_waiter(waiter), the timer callback (a handle
\* cancelled by wait_for's finally is skipped)
RunTimer ==
    /\ HeadIs("timer")
    /\ LET w == Head(ready).arg
           wt == waits[w]
       IN IF wt.phase /= "awaiting"
          THEN /\ ready' = Tail(ready)
               /\ UNCHANGED waits
          ELSE IF wt.waiterDone
          THEN /\ ready' = Tail(ready)
               /\ waits' = [waits EXCEPT ![w].timerAt = Len(dispatched)]
          ELSE /\ ready' = Append(Tail(ready), Item("wait_wake", w))
               /\ waits' = [waits EXCEPT ![w].waiterDone = TRUE,
                                         ![w].wakeQueued = TRUE,
                                         ![w].timerAt = Len(dispatched)]
    /\ UNCHANGED << servers, lifeVars, xVars, handlers, _buff, owned, randoms, nEvents,
                    dispatched, regCount >>

\* the task suspended in wait_for is cancelled by its owner
UserCancel(w) ==
    /\ nEvents < MaxEvents
    /\ nEvents' = nEvents + 1
    /\ w \in 1..Len(waits)
    /\ waits[w].phase = "awaiting"
    /\ ~waits[w].cancelReq
    /\ LET wt == waits[w] IN
       /\ waits' = [waits EXCEPT
              ![w].cancelReq = TRUE,
              ![w].wakeQueued = TRUE,
              ![w].waiterDone = IF wt.timeout THEN TRUE ELSE wt.waiterDone,
              ![w].fut = IF ~wt.timeout /\ wt.fut = "pending"
                         THEN "cancelled" ELSE wt.fut]
       /\ ready' = IF wt.wakeQueued THEN ready
                   ELSE Append(ready, Item("wait_wake", w))
    /\ UNCHANGED << servers, lifeVars, xVars, handlers, _buff, owned, randoms,
                    dispatched, regCount >>

\* mutant of Finally: the hooks are not unregistered
Finally_leaks(h, hooks) == [h |-> h, ok |-> TRUE]

\* the finally block of wait_for
Finally(h, hooks) == UnregisterAll(h, hooks)

\* wait_for leaves through its finally block: with a result, or with the
\* exception that ended it
Leave(w, how, result) ==
    LET f == Finally(handlers, waits[w].hooks) IN
    /\ handlers' = f.h
    /\ regCount' = regCount - (Len(handlers) - Len(f.h))
    /\ waits' = [waits EXCEPT
           ![w].phase = IF f.ok THEN how ELSE "raised",
           ![w].result = IF f.ok THEN result ELSE None,
           ![w].wakeQueued = FALSE]

\* the task suspended in asyncio.wait_for(fut, timeout) resumes
RunWaitWake ==
    /\ HeadIs("wait_wake")
    /\ LET w == Head(ready).arg
           wt == waits[w]
       IN IF wt.cancelReq /\ ~wt.timeout
          THEN \* CancelledError is thrown into `await fut`
               /\ Leave(w, "raised", None)
               /\ ready' = Tail(ready)
               /\ UNCHANGED capTasks
          ELSE IF wt.fut = "set"
          THEN \* asyncio.wait_for returns fut.result(), cancelled or not
               /\ Leave(w, "returned", wt.val)
               /\ AfterWait(w, wt.val, Tail(ready))
          ELSE \* the timeout elapsed or CancelledError was thrown in, and fut
               \* is pending: fut.cancel(), await _cancel_and_wait(fut); the
               \* hooks stay registered
               /\ waits' = [waits EXCEPT ![w].fut = "cancelled",
                                         ![w].phase = "cancelling",
                                         ![w].wakeQueued = FALSE]
               /\ ready' = Append(Tail(ready), Item("cancel_cb", w))
               /\ UNCHANGED << handlers, regCount, capTasks >>
    /\ UNCHANGED << servers, lifeVars, _buff, owned, randoms, nEvents, dispatched,
                    cap_handlers, sasl_mech, rx, inbound, snaps, invoked, buffSrc, mixed >>

\* _cancel_and_wait: the done callback of the cancelled future
RunCancelCb ==
    /\ HeadIs("cancel_cb")
    /\ ready' = Append(Tail(ready), Item("wait_timeout", Head(ready).arg))
    /\ UNCHANGED << servers, lifeVars, regVars >>

\* asyncio.wait_for resumes after _cancel_and_wait.  A cancelled call
\* raises CancelledError again, which leaves wait_for through the finally
\* block; otherwise `except asyncio.TimeoutError: result = None`, then the
\* finally block
RunWaitTimeout ==
    /\ HeadIs("wait_timeout")
    /\ LET w == Head(ready).arg
       IN IF waits[w].cancelReq
          THEN /\ Leave(w, "raised", None)
               /\ ready' = Tail(ready)
               /\ UNCHANGED capTasks
          ELSE /\ Leave(w, "returned", None)
               /\ AfterWait(w, None, Tail(ready))
    /\ UNCHANGED << servers, lifeVars, _buff, owned, randoms, nEvents, dispatched,
                    cap_handlers, sasl_mech, rx, inbound, snaps, invoked, buffSrc, mixed >>

\* ------------------------------------------------------------------------
\* The tasks of the capability handlers
\* ------------------------------------------------------------------------
\* register_cap(cap, None), called before connect()
UserRegisterCap(cap) ==
    /\ cyc = <<>>
    /\ ~HasKey(cap_handlers, cap)
    /\ cap_handlers' = Append(cap_handlers, [name |-> cap, val |-> <<"None">>])
    /\ UNCHANGED << servers, lifeVars, ready, handlers, _buff, waits, owned, randoms,
                    nEvents, dispatched, regCount, sasl_mech, capTasks, rx, inbound,
                    snaps, invoked, buffSrc, mixed >>

\* first step of a _do_sasl task: nothing is done without a mechanism;
\* otherwise AUTHENTICATE <mechanism> is handed to send() and the task
\* is suspended in wait_for("AUTHENTICATE", timeout=5)
RunSaslStep ==
    /\ HeadIs("sasl_step")
    /\ LET c == Head(ready).arg IN
       IF sasl_mech = "NONE"
       THEN /\ capTasks' = [capTasks EXCEPT ![c].st = "done"]
            /\ ready' = Append(Tail(ready), Item("gather_cb", capTasks[c].parent))
            /\ UNCHANGED << handlers, randoms, regCount, waits >>
       ELSE LET r == RegisterAll(handlers, randoms, <<"AUTHENTICATE">>,
                                 WaitFn(Len(waits) + 1)) IN
            /\ r.ok
            /\ handlers' = r.h
            /\ randoms' = r.rest
            /\ regCount' = regCount + 1
            /\ waits' = Append(waits, NewWait(<<"AUTHENTICATE">>, TRUE, r.hooks))
            /\ capTasks' = [capTasks EXCEPT ![c].st = "waiting",
                                            ![c].wait = Len(waits) + 1]
            /\ ready' = send(Tail(ready), <<"AUTHENTICATE", sasl_mech>>)
    /\ UNCHANGED << servers, lifeVars, _buff, owned, nEvents, dispatched,
                    cap_handlers, sasl_mech, rx, inbound, snaps, invoked, buffSrc, mixed >>

\* asyncio.gather: the done callback of a gathered task; the last one sets
\* the result of the future the handler awaits
RunGatherCb ==
    /\ HeadIs("gather_cb")
    /\ LET p == Head(ready).arg IN
       /\ capTasks' = [capTasks EXCEPT ![p].pending = capTasks[p].pending - 1]
       /\ ready' = IF capTasks[p].pending = 1
                   THEN Append(Tail(ready), Item("cap_resume", p))
                   ELSE Tail(ready)
    /\ UNCHANGED << servers, lifeVars, handlers, _buff, waits, owned, randoms, nEvents,
                    dispatched, regCount, cap_handlers, sasl_mech, rx, inbound, snaps,
                    invoked, buffSrc, mixed >>

\* _internal_cap_handler resumes after `await asyncio.gather(...)`
RunCapResume ==
    /\ HeadIs("cap_resume")
    /\ LET p == Head(ready).arg
           ns == AckLoop(NegState(caps, cap_handlers, capTasks, Tail(ready)),
                         p, capTasks[p].names, capTasks[p].enabled, capTasks[p].srv)
       IN /\ ready' = ns.q
          /\ caps' = ns.caps
          /\ cap_handlers' = ns.cap_handlers
          /\ capTasks' = ns.capTasks
    /\ UNCHANGED << servers, coreVars, handlers, _buff, waits, owned, randoms, nEvents,
                    dispatched, regCount, sasl_mech, rx, inbound, snaps, invoked,
                    buffSrc, mixed >>

\* ------------------------------------------------------------------------
\* The server
\* ------------------------------------------------------------------------
\* the line was written on transport t
Wrote(t, line) == \E k \in 1..Len(wire) : wire[k] = <<t, Encode(line)>>

\* the transport delivers a chunk: its read callback is queued
Deliver(chunk) ==
    /\ nEvents < MaxEvents
    /\ nEvents' = nEvents + 1
    /\ ready' = Append(ready, Item("read_data", chunk))
    /\ rx' = Append(rx, <<_transport, chunk>>)
    /\ UNCHANGED << servers, lifeVars, handlers, _buff, waits, owned, randoms,
                    dispatched, regCount, cap_handlers, sasl_mech, capTasks,
                    snaps, invoked, buffSrc, mixed >>

LsReply(list, more) ==
    IF more THEN <<"CAP", "*", "LS", "*", list>> ELSE <<"CAP", "*", "LS", list>>

LsLists == {"sasl", "multi-prefix", "sasl x", "x multi-prefix"}

\* the server answers CAP LS 302: one reply, or a reply with the
\* continuation marker followed by a last one
NetCapLS(list, more) ==
    /\ net = "open"
    /\ Wrote(_transport, <<"CAP", "LS", "302">>)
    /\ \A l \in LsLists : \A k \in 1..Len(rx) :
           rx[k] /= <<_transport, Encode(LsReply(l, FALSE))>>
    /\ more => \A l \in LsLists : \A k \in 1..Len(rx) :
           rx[k] /= <<_transport, Encode(LsReply(l, TRUE))>>
    /\ Deliver(Encode(LsReply(list, more)))
    /\ UNCHANGED inbound

ReplyLists == {"sasl", "x", "sasl x"}

AckReply(sub, list) == <<"CAP", "*", sub, list>>

\* the capability was answered on transport t
Answered(t, name) ==
    \E l \in ReplyLists, sub \in {"ACK", "NAK"} :
        /\ \E k \in 1..Len(CapListParse(l)) : CapListParse(l)[k] = name
        /\ \E k \in 1..Len(rx) : rx[k] = <<t, Encode(AckReply(sub, l))>>

\* the server answers CAP REQ lines it has not answered yet
NetCapReply(sub, list) ==
    /\ net = "open"
    /\ \A k \in 1..Len(CapListParse(list)) :
           /\ Wrote(_transport, <<"CAP", "REQ", ":" \o CapListParse(list)[k]>>)
           /\ ~Answered(_transport, CapListParse(list)[k])
    /\ Deliver(Encode(AckReply(sub, list)))
    /\ UNCHANGED inbound

AuthReplies == {"+", "x"}

\* the server answers AUTHENTICATE <mechanism>, once
NetAuthReply(param) ==
    /\ net = "open"
    /\ \E m \in {"PLAIN", "EXTERNAL"} : Wrote(_transport, <<"AUTHENTICATE", m>>)
    /\ \A a \in AuthReplies : \A k \in 1..Len(rx) :
           rx[k] /= <<_transport, Encode(<<"AUTHENTICATE", a>>)>>
    /\ Deliver(Encode(<<"AUTHENTICATE", param>>))
    /\ UNCHANGED inbound

\* the next n bytes of the inbound stream arrive as one chunk
NetCut(n) ==
    /\ n <= Len(inbound)
    /\ inbound' = SubSeq(inbound, n + 1, Len(inbound))
    /\ Deliver(SubSeq(inbound, 1, n))

\* ------------------------------------------------------------------------
\* Specification of the connection lifecycle
\* ------------------------------------------------------------------------
\* a generator whose every value comes twice and that wraps around: each
\* register() call meets an id in use
SeedLen == 24
SeedRange == 8
FixedSeed == [k \in 1..SeedLen |-> (((k - 1) \div 2) % SeedRange) + 1]

\* the arguments of the constructor that concern the negotiation, and
\* register_cap('sasl', _do_sasl)
InitNeg(mech, str) ==
    /\ sasl_mech = mech
    /\ cap_handlers = << [name |-> "sasl", val |-> <<"_do_sasl">>] >>
    /\ capTasks = <<>>
    /\ inbound = str

\* the server descriptors explored: the password the descriptor carries (None
\* when absent), and whether the server accepts every connection ("up") or
\* accepts it, refuses it or does not answer ("flaky")
Init == /\ \E srv \in [1..NumServers -> { [net |-> "up",    password |-> <<"pw">>],
                                         [net |-> "flaky", password |-> None] }] :
           InitLife(srv)
        /\ InitReg(FixedSeed)
        /\ InitNeg("NONE", <<>>)

\* the callbacks of the loop that connect, send and disconnect
RunLife ==
    \/ RunSpawnConnect
    \/ RunConnectStep
    \/ RunCcStep
    \/ RunSockConnectCb
    \/ RunCcWake
    \/ RunConnectionMade
    \/ RunAddReader
    \/ RunWaiterSet
    \/ RunAttRelease
    \/ RunConnectWake
    \/ RunAttemptTimer
    \/ RunAttRelease2
    \/ RunSpawnSend
    \/ RunSendStep
    \/ RunSendWake
    \/ RunReadEOF
    \/ RunConnectionLost

Next ==
    \/ UserConnect
    \/ \E text \in { <<"PRIVMSG", "#chan", "hi">> } : UserSend(text)
    \/ \E a \in 1..MaxAttempts, m \in {"accept", "refuse", "timedout"} : NetOutcome(a, m)
    \/ \E a \in 1..MaxAttempts : NetAttemptTimer(a, MaxTimeouts)
    \/ \E t \in 1..MaxAttempts : NetEOF(t)
    \/ RunLife

Spec == Init /\ [][Next]_vars

\* ------------------------------------------------------------------------
\* Specification of quit: the caller connects and calls quit() and
\* __aexit__ while the engine connects, loses its transport and reconnects
\* ------------------------------------------------------------------------
InitQuit ==
    /\ InitLife([i \in 1..NumServers |-> [net |-> "flaky", password |-> None]])
    /\ InitReg(FixedSeed)
    /\ InitNeg("NONE", <<>>)

NextQuit ==
    \/ UserConnect
    \/ \E reason \in { None, <<"bye">> } : UserQuit(reason)
    \/ UserAexit
    \/ \E a \in 1..MaxAttempts, m \in {"accept", "refuse", "timedout"} : NetOutcome(a, m)
    \/ \E a \in 1..MaxAttempts : NetAttemptTimer(a, MaxTimeouts)
    \/ \E t \in 1..MaxAttempts : NetEOF(t)
    \/ RunLife

SpecQuit == InitQuit /\ [][NextQuit]_vars

\* ------------------------------------------------------------------------
\* Specification of the exit of a connected engine: the caller connects and
\* calls __aexit__ once the engine is connected; the servers accept or do
\* not answer
\* ------------------------------------------------------------------------

NextExit ==
    \/ UserConnect
    \/ _connected /\ UserAexit
    \/ \E a \in 1..MaxAttempts, m \in {"accept"} : NetOutcome(a, m)
    \/ \E a \in 1..MaxAttempts : NetAttemptTimer(a, RaceTimeouts)
    \/ \E t \in 1..MaxAttempts : NetEOF(t)
    \/ RunLife

SpecExit == InitQuit /\ [][NextExit]_vars

\* ------------------------------------------------------------------------
\* Specification of wait_for: the caller registers, unregisters, waits and
\* cancels while the transport delivers data and the timers fire
\* ------------------------------------------------------------------------
InitWait ==
    /\ InitLife([i \in 1..NumServers |-> [net |-> "up", password |-> None]])
    /\ InitReg(FixedSeed)
    /\ InitNeg("NONE", <<>>)

NextWait ==
    \/ \E cmd \in {"*"} : UserRegister(cmd)
    \/ \E t \in 1..SeedRange : UserUnregister(t)
    \/ \E chunk \in { Encode(<<"PONG", "a">>),
                     Encode(<<"NOTICE", "c">>) \o Encode(<<"PONG", "b">>) } :
          NetData(chunk)
    \/ RunDataReceived
    \/ \E cmds \in WaitArgs, timeout \in BOOLEAN : WaitForCall(cmds, timeout)
    \/ RunHandlerStep
    \/ RunReleaseWaiter
    \/ \E w \in 1..MaxEvents : NetTimer(w)
    \/ RunTimer
    \/ \E w \in 1..MaxEvents : UserCancel(w)
    \/ RunWaitWake
    \/ RunCancelCb
    \/ RunWaitTimeout

SpecWait == InitWait /\ [][NextWait]_vars

\* ------------------------------------------------------------------------
\* Specification of the registry: register and unregister with every
\* generator that returns MaxDraws values of 1..IdRange
\* ------------------------------------------------------------------------
InitRegistry ==
    /\ InitLife([i \in 1..NumServers |-> [net |-> "up", password |-> None]])
    /\ \E seed \in [1..MaxDraws -> 1..IdRange] : InitReg(seed)
    /\ InitNeg("NONE", <<>>)

NextRegistry ==
    \/ \E cmd \in {"PONG", "*"} : UserRegister(cmd)
    \/ \E t \in 1..IdRange : UserUnregister(t)
    \/ \E cmds \in WaitArgs : WaitForCall(cmds, FALSE)
    \/ \E w \in 1..MaxEvents : UserCancel(w)
    \/ RunWaitWake

SpecRegistry == InitRegistry /\ [][NextRegistry]_vars

\* ------------------------------------------------------------------------
\* Specification of the framer: an inbound stream of StreamLen bytes is
\* delivered in chunks of any length
\* ------------------------------------------------------------------------
StreamLen == 4

InitFrame ==
    /\ InitLife([i \in 1..NumServers |-> [net |-> "up", password |-> None]])
    /\ InitReg(FixedSeed)
    /\ \E str \in [1..StreamLen -> {"a", CR, LF}] : InitNeg("NONE", str)

NextFrame ==
    \/ \E n \in 0..StreamLen : NetCut(n)
    \/ RunDataReceived

SpecFrame == InitFrame /\ [][NextFrame]_vars

\* ------------------------------------------------------------------------
\* Specification of the negotiation on one connection: the engine connects,
\* the server answers CAP LS, CAP REQ and AUTHENTICATE, the timer of the
\* SASL wait may fire
\* ------------------------------------------------------------------------

InitCap ==
    /\ InitLife([i \in 1..NumServers |-> [net |-> "up", password |-> None]])
    /\ InitReg(FixedSeed)
    /\ \E mech \in {"NONE", "PLAIN", "EXTERNAL"} : InitNeg(mech, <<>>)

NextCap ==
    \/ \E cap \in {"x"} : UserRegisterCap(cap)
    \/ \E value \in NameValues : UserSetUser(value)
    \/ \E value \in NameValues : UserSetRealname(value)
    \/ UserConnect
    \/ \E a \in 1..MaxAttempts, m \in {"accept"} : NetOutcome(a, m)
    \/ RunCcStep
    \/ RunSockConnectCb
    \/ RunCcWake
    \/ RunConnectionMade
    \/ RunAddReader
    \/ RunWaiterSet
    \/ RunAttRelease
    \/ RunConnectWake
    \/ RunSpawnSend
    \/ RunSendStep
    \/ \E list \in LsLists, more \in BOOLEAN : NetCapLS(list, more)
    \/ \E sub \in {"ACK", "NAK"}, list \in ReplyLists : NetCapReply(sub, list)
    \/ \E param \in AuthReplies : NetAuthReply(param)
    \/ \E w \in 1..MaxEvents : NetTimer(w)
    \/ RunDataReceived
    \/ RunHandlerStep
    \/ RunSaslStep
    \/ RunGatherCb
    \/ RunCapResume
    \/ RunReleaseWaiter
    \/ RunTimer
    \/ RunWaitWake
    \/ RunCancelCb
    \/ RunWaitTimeout

SpecCap == InitCap /\ [][NextCap]_vars

\* ------------------------------------------------------------------------
\* Specification of a reconnect during the negotiation: the connection is
\* lost while a line is half received or a handler is suspended, and the
\* engine connects again
\* ------------------------------------------------------------------------

\* data is read from the transport of the running connection
NetRead(chunk) ==
    /\ net = "open"
    /\ _transport /= NoTransport
    /\ NetData(chunk)

InitReconnect ==
    /\ InitLife([i \in 1..NumServers |-> [net |-> "up", password |-> None]])
    /\ InitReg(FixedSeed)
    /\ \E mech \in {"PLAIN", "EXTERNAL"} : InitNeg(mech, <<>>)

NextReconnect ==
    \/ UserConnect
    \/ \E a \in 1..MaxAttempts, m \in {"accept"} : NetOutcome(a, m)
    \/ \E t \in 1..MaxAttempts : NetEOF(t)
    \/ RunSpawnConnect
    \/ RunConnectStep
    \/ RunCcStep
    \/ RunSockConnectCb
    \/ RunCcWake
    \/ RunConnectionMade
    \/ RunAddReader
    \/ RunWaiterSet
    \/ RunAttRelease
    \/ RunConnectWake
    \/ RunReadEOF
    \/ RunConnectionLost
    \/ RunSpawnSend
    \/ RunSendStep
    \/ RunSendWake
    \/ \E chunk \in { <<"NOTICE", "c">>, Encode(<<"PONG", "b">>) } : NetRead(chunk)
    \/ \E list \in {"sasl"} : NetCapLS(list, FALSE)
    \/ \E sub \in {"ACK", "NAK"}, list \in {"sasl"} : NetCapReply(sub, list)
    \/ \E param \in AuthReplies : NetAuthReply(param)
    \/ \E w \in 1..MaxEvents : NetTimer(w)
    \/ RunDataReceived
    \/ RunHandlerStep
    \/ RunSaslStep
    \/ RunGatherCb
    \/ RunCapResume
    \/ RunReleaseWaiter
    \/ RunTimer
    \/ RunWaitWake
    \/ RunCancelCb
    \/ RunWaitTimeout

SpecReconnect == InitReconnect /\ [][NextReconnect]_vars

\* ------------------------------------------------------------------------
\* Properties of the connection lifecycle
\* ------------------------------------------------------------------------
\* the writes made on transport t, in order
WritesOn(t) ==
    LET OnT(w) == w[1] = t
        sel == SelectSeq(wire, OnT)
    IN [k \in 1..Len(sel) |-> sel[k][2]]

\* the loop has nothing left to run
Idle == ready = <<>>

\* C1: every line handed to send() while the engine is not connected is
\* written, with CRLF appended, on a transport established after the call:
\* once the engine is connected and the loop is idle every such line is on
\* the wire, and none was written on a transport that existed before the call.
C1_QueuedSendsWritten ==
    \A s \in sentNC :
        /\ (_connected /\ Idle) =>
               \E k \in 1..Len(wire) :
                   wire[k][2] = Encode(s.text) /\ wire[k][1] > s.tr
        /\ \A k \in 1..Len(wire) :
               wire[k][2] = Encode(s.text) => wire[k][1] > s.tr

\* C2: once quit() has been called no connection attempt is started: no step
\* taken while _quitting holds invokes _connect.
C2_NoAttemptAfterQuit ==
    [][_quitting => Len(atts') = Len(atts)]_vars

\* C3: connect() tries the servers in list order, wrapping around, tries the
\* next server after every failed attempt, and ends only by an attempt that
\* succeeded, never by reporting a failure to its caller.
C3_ConnectCyclesUntilSuccess ==
    \A c \in 1..Len(cyc) :
        /\ \A k \in 1..Len(cyc[c].tried) :
               cyc[c].tried[k] = ((k - 1) % NumServers) + 1
        /\ cyc[c].st /= "raised"
        /\ cyc[c].st = "returned" => atts[cyc[c].att].tr /= NoTransport

\* C4: after a transport loss while quit() has not been called the engine is
\* not connected and runs a connection cycle by itself; with a server of the
\* list that accepts connections the cycle goes on until the engine is
\* connected again.
C4_ReconnectsAfterLoss ==
    (reconnecting /\ \E i \in 1..NumServers : servers[i].net = "up") =>
        /\ ~_connected
        /\ \/ \E c \in 1..Len(cyc) : cyc[c].st = "attempting"
           \/ \E k \in 1..Len(ready) : ready[k].kind \in {"spawn_connect", "connect_step"}

\* C5: whatever the number of quit() calls, exactly one QUIT line is handed to
\* send(): the first call marks the engine quitting and sends QUIT with its
\* reason, a later call sends nothing and changes no state.
C5_ExactlyOneQuit ==
    /\ [](/\ _quitting <=> quitArgs /= <<>>
          /\ quitSends = IF quitArgs = <<>> THEN <<>>
                         ELSE << QuitLine(quitArgs[1]) >>)
    /\ [][(quitArgs' /= quitArgs /\ _quitting) =>
             UNCHANGED << regVars, caps, servers, _connected, _quitting, _transport, _server,
                          futVars, ready, blocked, connVars, nameVars, wire,
                          quitSends >>]_vars

C5_Witness ==
    /\ Len(quitArgs) >= 2
    /\ quitArgs[1] = <<"bye">>
    /\ \E k \in 1..Len(wire) : wire[k][2] = Encode(<<"QUIT", "bye">>)

\* C6: a quit future gets its result only in a connection_lost notification
\* that runs while the engine is quitting (never in quit(), never in a loss
\* while not quitting), and when __aexit__ was called on a connected engine
\* the loss of that transport resolves the future __aexit__ awaits.
C6_QuitFutureResolvedByLoss ==
    /\ [][quitDone' /= quitDone =>
             /\ HeadIs("connection_lost")
             /\ _quitting
             /\ quitDone' = quitDone \cup {quit_future}]_vars
    /\ []((aexit.tr /= NoTransport /\ losses > aexit.losses) =>
             aexit.fut \in quitDone)

\* index of the first CAP LS 302 in a sequence of writes, 0 when there is none
FirstCapLs(W) ==
    IF \E k \in 1..Len(W) : W[k] = Encode(<<"CAP", "LS", "302">>)
    THEN CHOOSE k \in 1..Len(W) :
             /\ W[k] = Encode(<<"CAP", "LS", "302">>)
             /\ \A j \in 1..(k - 1) : W[j] /= Encode(<<"CAP", "LS", "302">>)
    ELSE 0

\* the startup lines expected on transport t
ExpectedStartup(t) ==
    LET pw == servers[trs[t].srv].password
        names == trs[t].made[1]
    IN << Encode(<<"CAP", "LS", "302">>) >>
       \o (IF pw /= None THEN << Encode(<<"PASS">> \o pw) >> ELSE <<>>)
       \o << Encode(<<"NICK", Nick>>),
             Encode(<<"USER", names[1], "0", "*", ":" \o names[2]>>) >>

\* C7: on every established transport the engine is connected and the
\* startup lines are written as one block in the order CAP LS 302, PASS (if
\* and only if the server has a password), NICK, USER: the block is complete
\* when the loop is idle or the transport is lost, and no startup line is
\* written outside it.
C7_StartupSequence ==
    /\ _connected <=> _transport /= NoTransport
    /\ \A t \in 1..Len(trs) :
        trs[t].made /= <<>> =>
            LET W == WritesOn(t)
                S == ExpectedStartup(t)
                i == FirstCapLs(W)
            IN /\ i /= 0 =>
                    \A k \in 1..Len(S) : i + k - 1 <= Len(W) => W[i + k - 1] = S[k]
               /\ \A j \in 1..Len(W) :
                    W[j][1] \in {"CAP", "PASS", "NICK", "USER"} =>
                        i /= 0 /\ j >= i /\ j < i + Len(S)
               /\ (Idle \/ trs[t].st = "lost") =>
                    i /= 0 /\ i + Len(S) - 1 <= Len(W)

\* ------------------------------------------------------------------------
\* Properties of wait_for and of the registry
\* ------------------------------------------------------------------------
\* the entries of registry h that were not registered by the w-th wait_for
Others(h, w) ==
    LET NotMine(e) == e.fn /= WaitFn(w) IN SelectSeq(h, NotMine)

Finished(wt) == wt.phase \in {"returned", "raised"}

\* C8: when wait_for is left, by a matching message, by the timeout or by
\* cancellation, none of the handlers it registered is in the registry, and
\* the step that leaves it removes exactly those handlers: every other
\* registration stays, in place.
C8_WaitForCleansUp ==
    /\ [](\A w \in 1..Len(waits) :
             Finished(waits[w]) => Others(handlers, w) = handlers)
    /\ [][\A w \in 1..Len(waits) :
             (~Finished(waits[w]) /\ Finished(waits'[w])) =>
                 handlers' = Others(handlers, w)]_vars

C8_Witness ==
    \E w, v \in 1..Len(waits) :
        /\ waits[w].phase = "raised" /\ waits[w].cancelReq
        /\ waits[v].phase = "returned" /\ waits[v].timerAt >= 0
        /\ waits[v].result = None
        /\ Len(waits[w].hooks) + Len(waits[v].hooks) = 3
        /\ Len(handlers) = 2

\* a filter of the wait triggers on the message
Matches(wt, message) ==
    \E k \in 1..Len(wt.cmds) : Triggers(wt.cmds[k], message)

\* the messages dispatched between the registration of the wait and the
\* moment its timeout elapsed (the end, when it has not elapsed)
Window(wt) ==
    { k \in (wt.regAt + 1)..(IF wt.timerAt >= 0 THEN wt.timerAt ELSE Len(dispatched)) :
          Matches(wt, dispatched[k]) }

\* C9: a wait_for call with filters that returned gave the first message
\* dispatched after its registration that one of its filters triggers on,
\* when that message was dispatched before the timeout elapsed, and None
\* otherwise; the result of its future, once set, never changes; a call
\* without filters returns None at once and registers nothing.
C9_WaitForResolvesOnce ==
    /\ [](\A w \in 1..Len(waits) :
             LET wt == waits[w] IN
             wt.phase = "returned" =>
                 IF wt.cmds = <<>>
                 THEN wt.hooks = <<>> /\ wt.result = None
                 ELSE IF Window(wt) = {}
                      THEN wt.result = None
                      ELSE wt.result =
                               dispatched[CHOOSE k \in Window(wt) :
                                              \A j \in Window(wt) : k <= j])
    /\ [][/\ \A w \in 1..Len(waits) :
                /\ waits[w].fut = "set" =>
                       waits'[w].fut = "set" /\ waits'[w].val = waits[w].val
                /\ waits[w].phase = "returned" => waits'[w] = waits[w]
          /\ (Len(waits') > Len(waits) /\ waits'[Len(waits')].cmds = <<>>) =>
                /\ waits'[Len(waits')].phase = "returned"
                /\ handlers' = handlers]_vars

C9_Witness ==
    \E w, v \in 1..Len(waits) :
        /\ waits[w].phase = "returned" /\ waits[w].result /= None
        /\ \E k \in Window(waits[w]) : dispatched[k] /= waits[w].result
        /\ waits[v].phase = "returned" /\ waits[v].result = None
        /\ waits[v].timerAt >= 0
        /\ \E k \in (waits[v].timerAt + 1)..Len(dispatched) :
               Matches(waits[v], dispatched[k])

\* the registration of token t in registry h is the pair (cmd, fn)
Holds(h, t, cmd, fn) ==
    \E k \in 1..Len(h) : h[k] = [id |-> t, cmd |-> cmd, fn |-> fn]

\* C10: the token register() returns is not the key of a registered handler
\* and no registration is overwritten, whatever values the generator
\* returns: the keys of the registry are distinct, there are as many entries
\* as live registrations, and every live token maps to the pair it was
\* registered with.
C10_TokensUnique ==
    /\ [](/\ Len(handlers) = regCount
          /\ \A j, k \in 1..Len(handlers) :
                 handlers[j].id = handlers[k].id => j = k
          /\ \A o \in owned : Holds(handlers, o.id, o.cmd, Fn("user", 0))
          /\ \A w \in 1..Len(waits) :
                 ~Finished(waits[w]) =>
                     \A k \in 1..Len(waits[w].hooks) :
                         Holds(handlers, waits[w].hooks[k], waits[w].cmds[k], WaitFn(w)))
    /\ [][/\ \A o \in owned' \ owned : o.id \notin Ids(handlers)
          /\ Len(waits') > Len(waits) =>
                 \A k \in 1..Len(waits'[Len(waits')].hooks) :
                     waits'[Len(waits')].hooks[k] \notin Ids(handlers)]_vars

\* three registrations made with a generator whose other values all were
\* keys of the registry when it returned them
C10_Witness ==
    /\ nEvents = 1
    /\ owned /= {}
    /\ Len(handlers) = 3
    /\ randoms = <<>>

\* ------------------------------------------------------------------------
\* Properties of dispatch and framing
\* ------------------------------------------------------------------------

\* how often handler fn is due for message m: once for each time m was
\* dispatched and each entry of the registry at that time that holds fn
\* with the command of m or with "*"
Due(fn, m) ==
    Cardinality(UNION { { <<k, j>> : j \in { i \in 1..Len(snaps[k]) :
                                        /\ snaps[k][i].fn = fn
                                        /\ snaps[k][i].cmd \in {m.command, "*"} } } :
                        k \in { d \in 1..Len(dispatched) : dispatched[d] = m } })

\* C11: for every message dispatched, each handler registered at that
\* moment with the command of the message or with "*" gets exactly one task,
\* which is invoked once with that message, and no other handler gets one;
\* this is so whether or not handlers invoked before have raised.
C11_DispatchExactlyOnce ==
    /\ Len(snaps) = Len(dispatched)
    /\ \A k \in 1..Len(invoked) :
           Due(invoked[k].fn, invoked[k].msg) > 0
    /\ \A k \in 1..Len(dispatched) : \A j \in 1..Len(snaps[k]) :
           LET fn == snaps[k][j].fn
               m == dispatched[k]
               Ran(i) == i.fn = fn /\ i.msg = m
               Waiting(i) == i.kind = "handler_step" /\ i.arg.fn = fn /\ i.arg.msg = m
           IN Len(SelectSeq(invoked, Ran)) + Len(SelectSeq(ready, Waiting)) = Due(fn, m)

C11_Witness ==
    \E i, j, l \in 1..Len(invoked) :
        /\ i < j /\ j < l
        /\ invoked[i].raised
        /\ invoked[j].msg = invoked[i].msg /\ invoked[j].fn /= invoked[i].fn
        /\ invoked[l].msg /= invoked[i].msg
        /\ \E k \in 1..Len(handlers) : handlers[k].cmd = "PING"

\* the bytes delivered so far, in order
RECURSIVE Delivered(_)
Delivered(r) == IF r = <<>> THEN <<>> ELSE Head(r)[2] \o Delivered(Tail(r))

\* the line a parsed message was made of
Unparse(m) == IF m.command = "" THEN <<>> ELSE <<m.command>> \o m.parameters

RECURSIVE Rejoin(_)
Rejoin(msgs) ==
    IF msgs = <<>> THEN <<>>
    ELSE Unparse(Head(msgs)) \o <<CR, LF>> \o Rejoin(Tail(msgs))

HasCRLF(buf) == \E k \in 1..(Len(buf) - 1) : buf[k] = CR /\ buf[k + 1] = LF

\* C12: however the inbound stream is cut into chunks (empty chunks and a
\* cut between CR and LF included), once the chunks delivered are processed
\* the lines handed to the parser are the CRLF-terminated lines of the bytes
\* delivered, each once and in order, and the unterminated rest is in the
\* buffer: the same lines as when the bytes come in one chunk.
C12_ChunkingInvariance ==
    Idle =>
        /\ Rejoin(dispatched) \o _buff = Delivered(rx)
        /\ ~HasCRLF(_buff)
        /\ \A k \in 1..Len(dispatched) : ~HasCRLF(Unparse(dispatched[k]))
        /\ dispatched = ParseAll(Frame(Delivered(rx)).lines)

C12_Witness ==
    /\ Idle
    /\ inbound = <<>>
    /\ Len(dispatched) >= 1
    /\ \E k \in 1..Len(rx) : rx[k][2] = <<>>
    /\ \E k \in 1..(Len(rx) - 1) :
           /\ rx[k][2] /= <<>> /\ rx[k][2][Len(rx[k][2])] = CR
           /\ rx[k + 1][2] /= <<>> /\ rx[k + 1][2][1] = LF

\* ------------------------------------------------------------------------
\* Properties of the capability negotiation
\* ------------------------------------------------------------------------
IsCapEnd(bytes) == bytes = Encode(<<"CAP", "END">>)

\* C13: on every transport CAP END is written at most once, whatever ACK and
\* NAK messages arrive and whichever suspended ACK handler resumes after the
\* first CAP END.
C13_CapEndAtMostOnce ==
    \A t \in 1..Len(trs) : Len(SelectSeq(WritesOn(t), IsCapEnd)) <= 1

\* no handler of the negotiation is suspended or queued
NoCapTaskRunning == \A c \in 1..Len(capTasks) : capTasks[c].st = "done"

\* C14: once the final CAP LS reply is processed, every CAP REQ is answered,
\* no entry of the map is pending and the loop has run dry, CAP END has been
\* written on the transport; the empty map is included.
C14_CapEndEventually ==
    (/\ Idle
     /\ net = "open"
     /\ \E l \in LsLists : \E k \in 1..Len(rx) :
            rx[k] = <<_transport, Encode(LsReply(l, FALSE))>>
     /\ AllDecided(caps)
     /\ NoCapTaskRunning)
        => Wrote(_transport, <<"CAP", "END">>)

KeySet(d) == {d[k].name : k \in 1..Len(d)}

\* the names in the last parameter of a CAP message
Advertised(message) ==
    LET names == CapListParse(message.parameters[Len(message.parameters)])
    IN {names[k] : k \in 1..Len(names)}

\* the step runs _internal_cap_handler with a CAP LS reply
LsHandlerRuns ==
    /\ HeadIs("handler_step")
    /\ Head(ready).arg.fn.name = "_internal_cap_handler"
    /\ Head(ready).arg.msg.parameters[2] = "LS"
    /\ invoked' /= invoked

\* C15: the handler of a CAP LS reply marks pending exactly the advertised
\* capabilities that have an entry in cap_handlers and leaves the other
\* entries of the map alone; with the continuation marker it queues no
\* line, without it it queues one CAP REQ for each capability of the map
\* and nothing else; no CAP REQ is ever written for a capability without
\* an entry in cap_handlers.
C15_LsMarksAndRequests ==
    /\ [][LsHandlerRuns =>
            LET message == Head(ready).arg.msg
                want == {n \in Advertised(message) : HasKey(cap_handlers, n)}
                new == SubSeq(ready', Len(ready), Len(ready'))
            IN /\ KeySet(caps') = KeySet(caps) \cup want
               /\ Len(caps') = Cardinality(KeySet(caps'))
               /\ \A n \in want : Get(caps', n) = "None"
               /\ \A n \in KeySet(caps) \ want : Get(caps', n) = Get(caps, n)
               /\ IF Len(message.parameters) = 4 /\ message.parameters[3] = "*" THEN new = <<>>
                  ELSE /\ Len(new) = Len(caps')
                       /\ \A n \in KeySet(caps') :
                              Cardinality({k \in 1..Len(new) :
                                  new[k] = Item("spawn_send", <<"CAP", "REQ", ":" \o n>>)}) = 1
           ]_vars
    /\ [](\A k \in 1..Len(wire) : \A n \in {"sasl", "x", "multi-prefix"} :
             wire[k][2] = Encode(<<"CAP", "REQ", ":" \o n>>) => HasKey(cap_handlers, n))

C15_Witness ==
    /\ Idle
    /\ \E k \in 1..Len(rx) : rx[k] = <<1, Encode(LsReply("x multi-prefix", TRUE))>>
    /\ \E k \in 1..Len(rx) : rx[k] = <<1, Encode(LsReply("sasl", FALSE))>>
    /\ KeySet(caps) = {"x", "sasl"}
    /\ Wrote(1, <<"CAP", "REQ", ":x">>)
    /\ Wrote(1, <<"CAP", "REQ", ":sasl">>)

IsCapEndSend(i) == i = Item("spawn_send", <<"CAP", "END">>)

\* the step calls conn.send("CAP END")
CapEndSent == Len(SelectSeq(ready', IsCapEndSend)) > Len(SelectSeq(ready, IsCapEndSend))

\* C16: when CAP END is sent, no capability handler started by a CAP ACK
\* and no ACK/NAK handler awaiting one is still running; in particular not
\* a _do_sasl whose AUTHENTICATE exchange has not finished.
C16_NoCapEndWhileHandlerRuns ==
    [][CapEndSent => \A c \in 1..Len(capTasks') : capTasks'[c].st = "done"]_vars

\* ------------------------------------------------------------------------
\* Properties of the SASL flow
\* ------------------------------------------------------------------------
IsAuth(bytes) == Len(bytes) = 4 /\ bytes[1] = "AUTHENTICATE"

\* the AUTHENTICATE lines written, in order
AuthLines ==
    LET all == [k \in 1..Len(wire) |-> wire[k][2]] IN SelectSeq(all, IsAuth)

IsAuthSend(i) == i.kind = "spawn_send" /\ i.arg[1] = "AUTHENTICATE"

\* the AUTHENTICATE lines handed to send() and not yet written: the _send
\* task is not created yet, has not started, is suspended in
\* `await self._connected_future`, or is woken and has not run
AuthQueued ==
    Len(SelectSeq(ready, IsAuthSend))
    + Cardinality({k \in 1..Len(ready) :
          /\ ready[k].kind \in {"send_step", "send_wake"}
          /\ ready[k].arg[1] = "AUTHENTICATE"})
    + Cardinality({k \in 1..Len(blocked) : blocked[k].text[1] = "AUTHENTICATE"})

\* the _do_sasl tasks whose wait has ended: with None after the timeout,
\* or with the reply
SaslEnded(c) ==
    /\ capTasks[c].kind = "sasl"
    /\ capTasks[c].st = "done"
    /\ capTasks[c].wait /= 0

TimedOut(c) == SaslEnded(c) /\ waits[capTasks[c].wait].result = None

\* C17: AUTHENTICATE <mechanism> is sent at most once per sasl ACK and no
\* AUTHENTICATE line at all without a mechanism; when the wait for the
\* reply times out, wait_for returns None without raising, the only
\* AUTHENTICATE line sent is the first one, and CAP END is written once no
\* entry of the map is pending and the handlers have finished.
C17_SaslAtMostOnce ==
    LET IsMech(bytes) == bytes = Encode(<<"AUTHENTICATE", sasl_mech>>) IN
    /\ Len(SelectSeq(AuthLines, IsMech)) <=
           Cardinality({k \in 1..Len(rx) : \E l \in {"sasl", "sasl x"} :
                           rx[k][2] = Encode(AckReply("ACK", l))})
    /\ sasl_mech = "NONE" => (AuthLines = <<>> /\ AuthQueued = 0)
    /\ \A c \in 1..Len(capTasks) : TimedOut(c) =>
           /\ waits[capTasks[c].wait].phase = "returned"
           /\ Len(AuthLines) + AuthQueued = 1
           /\ (Idle /\ AllDecided(caps) /\ NoCapTaskRunning)
                  => Wrote(_transport, <<"CAP", "END">>)

C17_Witness ==
    /\ Idle
    /\ sasl_mech = "PLAIN"
    /\ \E c \in 1..Len(capTasks) : TimedOut(c)
    /\ NoCapTaskRunning
    /\ AuthLines = << Encode(<<"AUTHENTICATE", "PLAIN">>) >>
    /\ Wrote(1, <<"CAP", "END">>)

\* C18: when the reply the SASL handler waited for has first parameter "+",
\* the AUTHENTICATE lines sent are AUTHENTICATE <mechanism> and then one
\* response, whose payload is base64(nick NUL authcid NUL password) for
\* PLAIN and "+" for another mechanism; when the first parameter is not
\* "+", AUTHENTICATE <mechanism> is the only one.
C18_SaslResponse ==
    \A c \in 1..Len(capTasks) :
        (SaslEnded(c) /\ ~TimedOut(c)) =>
            LET reply == waits[capTasks[c].wait].result
                expected == IF reply.parameters[1] = "+"
                            THEN << Encode(<<"AUTHENTICATE", sasl_mech>>),
                                    \* base64 of nick NUL acct NUL pw
                                    Encode(<<"AUTHENTICATE",
                                             IF sasl_mech = "PLAIN"
                                             THEN "bmljawBhY2N0AHB3" ELSE "+">>) >>
                            ELSE << Encode(<<"AUTHENTICATE", sasl_mech>>) >>
            IN /\ Len(AuthLines) + AuthQueued = Len(expected)
               /\ AuthLines = SubSeq(expected, 1, Len(AuthLines))

C18_Witness ==
    /\ Idle
    /\ sasl_mech = "PLAIN"
    /\ \E c \in 1..Len(capTasks) :
           /\ SaslEnded(c)
           /\ waits[capTasks[c].wait].result /= None
           /\ waits[capTasks[c].wait].result.parameters[1] = "+"
    /\ AuthLines = << Encode(<<"AUTHENTICATE", "PLAIN">>),
                      Encode(<<"AUTHENTICATE", "bmljawBhY2N0AHB3">>) >>

\* ------------------------------------------------------------------------
\* Properties of a reconnect
\* ------------------------------------------------------------------------
\* C19: no message handed to the handlers was assembled from bytes read on
\* two transports: a partial line left in the buffer when the connection
\* is lost is not joined with the first bytes of the next connection.
C19_NoLineAcrossConnections == ~mixed

\* C20: every connection attempt starts with an empty capability map, and
\* a step of a CAP or SASL handler started during an earlier attempt leaves
\* the map alone and sends neither CAP END nor AUTHENTICATE.
C20_OldHandlersLeaveNewConnection ==
    /\ [][Len(atts') /= Len(atts) => caps' = <<>>]_vars
    /\ [][(\E c \in 1..Len(capTasks) :
               capTasks[c].srv /= Len(atts) /\ capTasks'[c] /= capTasks[c]) =>
             (/\ caps' = caps
              /\ ~CapEndSent
              /\ Len(SelectSeq(ready', IsAuthSend)) <= Len(SelectSeq(ready, IsAuthSend)))]_vars

====
